---- MODULE Spec2Model ----
(***************************************************************************)
(* Model of the AIOps core of S2W-H5C:                                     *)
(*   - AnomalyDetector and SelfHealing   (backend/node/src/aiops.ts)       *)
(*   - the /ws/ops session loop          (backend/node/src/server.ts)      *)
(*                                                                         *)
(* Numbers.  Metric readings are drawn from small sets of integers (and    *)
(* NaN); mean, standard deviation, z-score and least-squares slope are     *)
(* evaluated in exact rational arithmetic, every comparison of the code    *)
(* being cross-multiplied into integers.  Time is Date.now() in            *)
(* milliseconds.  The fields id, at and message of an event (a random      *)
(* token, a clock string and a display text) are not modelled.             *)
(***************************************************************************)
EXTENDS Integers, Sequences, FiniteSets, TLC

VARIABLES
    now,              \* Date.now(), milliseconds
    det,              \* det[s]: the AnomalyDetector of session s
    cfg,              \* SelfHealing.cfg of the shared controller selfHeal
    rateLimitUntilMs, \* SelfHealing.rateLimitUntilMs
    isolated,         \* SelfHealing.isolated
    conn,             \* conn[s]: "none" | "open" | "closed" (the websocket)
    timer,            \* timer[s]: TRUE while the interval timer is set
    source,           \* source[s]: "local" | "monitor"
    monitorUrl,       \* monitorUrl[s]
    errorStreak,      \* errorStreak[s]
    inflight,         \* inflight[s]: the ticks of s suspended in a collector
    emitted,          \* emitted[s][kind]: the times detect returned an event of kind
    used,             \* the tick starts and control messages so far
    last              \* what the latest operation was given, returned and sent

vars == <<now, det, cfg, rateLimitUntilMs, isolated, conn, timer, source,
          monitorUrl, errorStreak, inflight, emitted, used, last>>

detVars  == <<det, emitted>>
ctlVars  == <<cfg, rateLimitUntilMs, isolated>>
sessVars == <<conn, timer, source, monitorUrl, errorStreak, inflight, used>>

----------------------------------------------------------------------------
(* Numbers *)

NaN == -1000000

IsNaN(x) == x = NaN

\* Fault variant of Ge: a comparison with NaN holds
Ge_nan(x, c) == IsNaN(x) \/ IsNaN(c) \/ x >= c

Ge(x, c) == ~IsNaN(x) /\ ~IsNaN(c) /\ x >= c

Lt(x, c) == ~IsNaN(x) /\ ~IsNaN(c) /\ x < c

Max2(a, b) == IF a >= b THEN a ELSE b

Min2(a, b) == IF a <= b THEN a ELSE b

\* Fault variant of clamp: no upper end
clamp_open(n, a, b) == Max2(a, n)

clamp(n, a, b) == Max2(a, Min2(b, n))

RECURSIVE SumSeq(_)
SumSeq(q) == IF q = <<>> THEN 0 ELSE Head(q) + SumSeq(Tail(q))

HasNaN(q) == \E i \in 1..Len(q) : IsNaN(q[i])

\* Array.prototype.slice(-k): the last k elements (all of them when shorter)
SliceLast(q, k) == IF Len(q) <= k THEN q ELSE SubSeq(q, Len(q) - k + 1, Len(q))

\* Array.prototype.slice(0, -1): all but the last element
SliceButLast(q) == IF Len(q) = 0 THEN q ELSE SubSeq(q, 1, Len(q) - 1)

\* meanStd: mean = sum/n, std = sqrt((n*sq - sum^2)/n^2), kept as n, sum, sq
meanStd(values) ==
    IF Len(values) = 0 THEN [nan |-> FALSE, n |-> 1, sum |-> 0, sq |-> 0]
    ELSE IF HasNaN(values) THEN [nan |-> TRUE, n |-> 1, sum |-> 0, sq |-> 0]
    ELSE [nan |-> FALSE, n |-> Len(values), sum |-> SumSeq(values),
          sq |-> SumSeq([i \in 1..Len(values) |-> values[i] * values[i]])]

\* n^2 * variance
VarN2(s) == s.n * s.sq - s.sum * s.sum

\* s.std > 0.001, i.e. variance > 1e-6, i.e. 1e6 * VarN2 > n^2
StdAboveEps(s) == ~s.nan /\ VarN2(s) > (s.n * s.n) \div 1000000

\* Fault variant of zAtLeast: without variance the score is 999 above mean + 5
zAtLeast_above(x, s, p, q) ==
    IF IsNaN(x) \/ s.nan THEN FALSE
    ELSE IF StdAboveEps(s)
         THEN LET d == s.n * x - s.sum
              IN  d > 0 /\ (q * d) * (q * d) >= p * p * VarN2(s)
         ELSE s.n * x > s.sum + 5 * s.n

\* z(x, s) >= p/q for the thresholds 2.8 = 14/5 and 2.6 = 13/5:
\*   std > 0.001:  (x - mean)/std >= p/q
\*   otherwise  :  z is 999 when x >= mean + 5 and 0 when not
zAtLeast(x, s, p, q) ==
    IF IsNaN(x) \/ s.nan THEN FALSE
    ELSE IF StdAboveEps(s)
         THEN LET d == s.n * x - s.sum
              IN  d > 0 /\ (q * d) * (q * d) >= p * p * VarN2(s)
         ELSE s.n * x >= s.sum + 5 * s.n

----------------------------------------------------------------------------
(* aiops.ts: events and actions *)

NoSeconds == -1      \* an enable_rate_limit action without a seconds field

NoExecuted == [mode |-> "none", actions |-> <<>>]   \* event.executed absent

Action(kind, reason, seconds) ==
    [kind |-> kind, reason |-> reason, seconds |-> seconds]

Event(type, severity, src, metrics, actions) ==
    [type |-> type, severity |-> severity, source |-> src,
     metrics |-> metrics, actions |-> actions, executed |-> NoExecuted]

\* Fault variant of cpuActions: a cpu_spike proposes isolate_node
cpuActions_isolating ==
    << Action("enable_rate_limit", "cpu_spike", 30),
       Action("isolate_node", "cpu_spike", NoSeconds) >>

cpuActions == << Action("enable_rate_limit", "cpu_spike", 30),
                 Action("load_balance_hint", "scale_out", NoSeconds) >>

ramActions == << Action("enable_rate_limit", "ram_spike", 30),
                 Action("load_balance_hint", "check_memory", NoSeconds) >>

ioActions == << Action("enable_rate_limit", "io_spike", 20) >>

\* Fault variant of diskActions: a disk_full proposes nothing
diskActions_none == <<>>

diskActions == << Action("load_balance_hint", "clean_or_grow", NoSeconds) >>

leakActions == << Action("enable_rate_limit", "ram_leak", 45),
                  Action("load_balance_hint", "restart_or_rollback", NoSeconds) >>

----------------------------------------------------------------------------
(* aiops.ts: AnomalyDetector *)

max == 120

NoTable == [k \in {} |-> 0]

NewDetector == [window |-> <<>>, lastLeakAtMs |-> 0, lastSpikeAtMs |-> NoTable]

Sample(cpu, ram, disk, io, src) ==
    [cpu |-> cpu, ram |-> ram, disk |-> disk, io |-> io, source |-> src]

\* Fault variant of push: evicts as soon as the window is full
push_full(d, m) ==
    LET w == Append(d.window, m)
    IN  [d EXCEPT !.window = IF Len(w) >= max THEN SliceLast(w, max - 1) ELSE w]

push(d, m) ==
    LET w == Append(d.window, m)
    IN  [d EXCEPT !.window = IF Len(w) > max THEN SliceLast(w, max) ELSE w]

\* Fault variant of cooldown: the cooldown still holds at exactly ms
cooldown_le(tbl, t, ms, at) ==
    at - (IF t \in DOMAIN tbl THEN tbl[t] ELSE 0) <= ms

\* now - (lastSpikeAtMs[t] ?? 0) < ms
cooldown(tbl, t, ms, at) ==
    at - (IF t \in DOMAIN tbl THEN tbl[t] ELSE 0) < ms

\* Fault variant of mark: one time of last emission for all the kinds
mark_any(tbl, t, at) ==
    [k \in {"cpu_spike", "ram_spike", "io_spike", "disk_full"} |-> at]

mark(tbl, t, at) ==
    [k \in (DOMAIN tbl) \cup {t} |-> IF k = t THEN at ELSE tbl[k]]

Col(w, f) == [i \in 1..Len(w) |-> w[i][f]]

\* the 25 centred indices times the readings: den * slope, den = 1300
LeakNum(ys) == SumSeq([i \in 1..Len(ys) |-> (i - 13) * ys[i]])

\* detectRamLeak returned null
NoLeak(d) == [events |-> <<>>, lastLeakAtMs |-> d.lastLeakAtMs]

\* Fault variant of detectRamLeak: the rise last - first is not tested
detectRamLeak_norise(d, at) ==
    LET series == SliceLast(d.window, 25)
        ys     == Col(series, "ram")
        lastY  == ys[Len(ys)]
    IN  IF at - d.lastLeakAtMs < 20000 THEN NoLeak(d)
        ELSE IF Len(series) < 25 THEN NoLeak(d)
        ELSE IF ~HasNaN(ys) /\ lastY >= 80 /\ 100 * LeakNum(ys) >= 22 * 1300
             THEN [events |->
                     << Event("ram_leak",
                              IF lastY >= 92 THEN "critical" ELSE "warn",
                              series[Len(series)].source,
                              series[Len(series)], leakActions) >>,
                   lastLeakAtMs |-> at]
             ELSE NoLeak(d)

\* Fault variant of detectRamLeak: the cooldown is read off the spike table
detectRamLeak_spikeclock(d, at) ==
    LET series == SliceLast(d.window, 25)
        ys     == Col(series, "ram")
        lastY  == ys[Len(ys)]
    IN  IF cooldown(d.lastSpikeAtMs, "ram_spike", 20000, at) THEN NoLeak(d)
        ELSE IF Len(series) < 25 THEN NoLeak(d)
        ELSE IF ~HasNaN(ys) /\ lastY >= 80 /\ lastY - ys[1] >= 8
                /\ 100 * LeakNum(ys) >= 22 * 1300
             THEN [events |->
                     << Event("ram_leak",
                              IF lastY >= 92 THEN "critical" ELSE "warn",
                              series[Len(series)].source,
                              series[Len(series)], leakActions) >>,
                   lastLeakAtMs |-> at]
             ELSE NoLeak(d)

\* detectRamLeak, the event or none, with the new lastLeakAtMs
detectRamLeak(d, at) ==
    LET series == SliceLast(d.window, 25)
        ys     == Col(series, "ram")
        lastY  == ys[Len(ys)]
    IN  IF at - d.lastLeakAtMs < 20000 THEN NoLeak(d)
        ELSE IF Len(series) < 25 THEN NoLeak(d)
        ELSE IF ~HasNaN(ys) /\ lastY >= 80 /\ lastY - ys[1] >= 8
                /\ 100 * LeakNum(ys) >= 22 * 1300
             THEN [events |->
                     << Event("ram_leak",
                              IF lastY >= 92 THEN "critical" ELSE "warn",
                              series[Len(series)].source,
                              series[Len(series)], leakActions) >>,
                   lastLeakAtMs |-> at]
             ELSE NoLeak(d)

\* Fault variant of StatFires: the statistical layer tests neither the upper
\* band nor the cooldown
StatFires_nocheck(tbl, x, stats, p, q, t, ms, at) ==
    Ge(x, 85) /\ zAtLeast(x, stats, p, q)

\* last.x < 95 && last.x >= 85 && xZ >= thr && !cooldown(kind, ms)
StatFires(tbl, x, stats, p, q, t, ms, at) ==
    Lt(x, 95) /\ Ge(x, 85) /\ zAtLeast(x, stats, p, q)
    /\ ~cooldown(tbl, t, ms, at)

\* last.x >= thr && !cooldown(kind, ms)
AbsFires(tbl, x, thr, t, ms, at) == Ge(x, thr) /\ ~cooldown(tbl, t, ms, at)

\* Fault variant of Fired: the event is returned without mark(kind)
Fired_unmarked(st, t, at, ev) ==
    [events |-> Append(st.events, ev), tbl |-> st.tbl]

\* mark(kind); out.push(ev)
Fired(st, t, at, ev) ==
    [events |-> Append(st.events, ev), tbl |-> mark(st.tbl, t, at)]

\* one rule of the absolute layer: st holds out and lastSpikeAtMs
AbsRule(st, x, thr, t, ms, at, ev) ==
    IF AbsFires(st.tbl, x, thr, t, ms, at) THEN Fired(st, t, at, ev) ELSE st

\* one rule of the statistical layer
StatRule(st, x, stats, p, q, t, ms, at, ev) ==
    IF StatFires(st.tbl, x, stats, p, q, t, ms, at)
    THEN Fired(st, t, at, ev) ELSE st

StatSeverity(x) == IF Ge(x, 95) THEN "critical" ELSE "warn"

DiskSeverity(x) == IF Ge(x, 97) THEN "critical" ELSE "warn"

\* the absolute layer on the latest sample lst
AbsLayer(tbl, lst, src, at) ==
    AbsRule(
      AbsRule(
        AbsRule(
          AbsRule([events |-> <<>>, tbl |-> tbl],
                  lst.cpu, 95, "cpu_spike", 15000, at,
                  Event("cpu_spike", "critical", src, lst, cpuActions)),
          lst.ram, 95, "ram_spike", 15000, at,
          Event("ram_spike", "critical", src, lst, ramActions)),
        lst.io, 95, "io_spike", 12000, at,
        Event("io_spike", "critical", src, lst, ioActions)),
      lst.disk, 90, "disk_full", 30000, at,
      Event("disk_full", DiskSeverity(lst.disk), src, lst, diskActions))

\* the statistical layer, after the absolute layer left st
StatLayer(st, baseline, lst, src, at) ==
    StatRule(
      StatRule(
        StatRule(st, lst.cpu, meanStd(Col(baseline, "cpu")), 14, 5,
                 "cpu_spike", 15000, at,
                 Event("cpu_spike", StatSeverity(lst.cpu), src, lst, cpuActions)),
        lst.ram, meanStd(Col(baseline, "ram")), 14, 5, "ram_spike", 15000, at,
        Event("ram_spike", StatSeverity(lst.ram), src, lst, ramActions)),
      lst.io, meanStd(Col(baseline, "io")), 13, 5, "io_spike", 12000, at,
      Event("io_spike", StatSeverity(lst.io), src, lst, ioActions))

\* what detect returns and leaves: st from the spike rules, leak from
\* detectRamLeak
Detected(d, st, leak) ==
    [events |-> st.events \o leak.events,
     det    |-> [d EXCEPT !.lastSpikeAtMs = st.tbl,
                         !.lastLeakAtMs  = leak.lastLeakAtMs]]

\* Fault variant of Baseline: the newest sample is left in
Baseline_all(recent) == recent

Baseline(recent) == IF Len(recent) >= 2 THEN SliceButLast(recent) ELSE recent

\* detect(source) at time at: the events returned and the detector after it
detect(d, src, at) ==
    IF Len(d.window) < 1 THEN [events |-> <<>>, det |-> d]
    ELSE IF Len(d.window) < 8
    THEN Detected(d, AbsLayer(d.lastSpikeAtMs, d.window[Len(d.window)], src, at),
                  NoLeak(d))
    ELSE Detected(d,
                  StatLayer(AbsLayer(d.lastSpikeAtMs, d.window[Len(d.window)],
                                     src, at),
                            Baseline(SliceLast(d.window, 60)),
                            d.window[Len(d.window)], src, at),
                  detectRamLeak(d, at))

----------------------------------------------------------------------------
(* aiops.ts: SelfHealing *)

\* new SelfHealing(cfg) with every field of cfg given, as server.ts does
NewConfig(enabled, mode, rateLimitSeconds) ==
    [enabled |-> enabled, mode |-> mode, rateLimitSeconds |-> rateLimitSeconds]

\* setConfig(next): next is a record holding the fields that are given
setConfig(c, next) ==
    LET c1 == IF "enabled" \in DOMAIN next
              THEN [c EXCEPT !.enabled = next.enabled] ELSE c
        c2 == IF "mode" \in DOMAIN next /\ next.mode \in {"dry-run", "armed"}
              THEN [c1 EXCEPT !.mode = next.mode] ELSE c1
    IN  IF "rateLimitSeconds" \in DOMAIN next /\ ~IsNaN(next.rateLimitSeconds)
        THEN [c2 EXCEPT !.rateLimitSeconds = clamp(next.rateLimitSeconds, 5, 300)]
        ELSE c2

isRateLimited(until, at) == at < until

\* Fault variant of rateLimitTo: the new window replaces the old one
rateLimitTo_set(until, sec, at) == at + sec * 1000

\* Math.max(this.rateLimitUntilMs, Date.now() + sec * 1000)
rateLimitTo(until, sec, at) == Max2(until, at + sec * 1000)

placeholder == Action("load_balance_hint", "not_executable", NoSeconds)

\* Fault variant of applyAction: the mode is not looked at
applyAction_armed(st, a, c, at) ==
    IF a.kind = "enable_rate_limit"
    THEN LET sec == clamp(IF a.seconds = NoSeconds THEN c.rateLimitSeconds
                          ELSE a.seconds, 5, 300)
         IN  [st EXCEPT !.until = rateLimitTo(st.until, sec, at),
                        !.executed = Append(st.executed, a)]
    ELSE IF a.kind = "isolate_node"
    THEN [st EXCEPT !.isolated = TRUE, !.executed = Append(st.executed, a)]
    ELSE [st EXCEPT !.executed = Append(st.executed, placeholder)]

\* Fault variant of applyAction: an action that cannot be run is left out
applyAction_drop(st, a, c, at) ==
    IF c.mode = "dry-run"
    THEN [st EXCEPT !.executed = Append(st.executed, a)]
    ELSE IF a.kind = "enable_rate_limit"
    THEN LET sec == clamp(IF a.seconds = NoSeconds THEN c.rateLimitSeconds
                          ELSE a.seconds, 5, 300)
         IN  [st EXCEPT !.until = rateLimitTo(st.until, sec, at),
                        !.executed = Append(st.executed, a)]
    ELSE IF a.kind = "isolate_node"
    THEN [st EXCEPT !.isolated = TRUE, !.executed = Append(st.executed, a)]
    ELSE st

\* the body of "for (const a of actions)": st holds rateLimitUntilMs,
\* isolated and the executed list
applyAction(st, a, c, at) ==
    IF c.mode = "dry-run"
    THEN [st EXCEPT !.executed = Append(st.executed, a)]
    ELSE IF a.kind = "enable_rate_limit"
    THEN LET sec == clamp(IF a.seconds = NoSeconds THEN c.rateLimitSeconds
                          ELSE a.seconds, 5, 300)
         IN  [st EXCEPT !.until = rateLimitTo(st.until, sec, at),
                        !.executed = Append(st.executed, a)]
    ELSE IF a.kind = "isolate_node"
    THEN [st EXCEPT !.isolated = TRUE, !.executed = Append(st.executed, a)]
    ELSE [st EXCEPT !.executed = Append(st.executed, placeholder)]

RECURSIVE applyActions(_, _, _, _)
applyActions(st, actions, c, at) ==
    IF actions = <<>> THEN st
    ELSE applyActions(applyAction(st, Head(actions), c, at), Tail(actions), c, at)

\* Fault variant of applyEvent: an event proposing nothing is not returned
applyEvent_skip(st, ev, c, at) ==
    IF Len(ev.actions) = 0
    THEN st
    ELSE LET r == applyActions([until |-> st.until, isolated |-> st.isolated,
                                executed |-> <<>>], ev.actions, c, at)
         IN  [until    |-> r.until,
              isolated |-> r.isolated,
              enriched |-> Append(st.enriched,
                             [ev EXCEPT !.executed =
                                 [mode |-> c.mode, actions |-> r.executed]])]

\* the body of "for (const ev of events)": st holds rateLimitUntilMs,
\* isolated and the enriched list
applyEvent(st, ev, c, at) ==
    IF Len(ev.actions) = 0
    THEN [st EXCEPT !.enriched = Append(st.enriched, ev)]
    ELSE LET r == applyActions([until |-> st.until, isolated |-> st.isolated,
                                executed |-> <<>>], ev.actions, c, at)
         IN  [until    |-> r.until,
              isolated |-> r.isolated,
              enriched |-> Append(st.enriched,
                             [ev EXCEPT !.executed =
                                 [mode |-> c.mode, actions |-> r.executed]])]

RECURSIVE applyEvents(_, _, _, _)
applyEvents(st, events, c, at) ==
    IF events = <<>> THEN st
    ELSE applyEvents(applyEvent(st, Head(events), c, at), Tail(events), c, at)

\* Fault variant of apply: the latch is recomputed on every call
apply_relatch(c, until, iso, events, at) ==
    IF ~c.enabled
    THEN [until |-> until, isolated |-> iso, enriched |-> events]
    ELSE applyEvents([until |-> until, isolated |-> FALSE, enriched |-> <<>>],
                     events, c, at)

\* Fault variant of apply: the window is recomputed on every call
apply_rewindow(c, until, iso, events, at) ==
    IF ~c.enabled
    THEN [until |-> until, isolated |-> iso, enriched |-> events]
    ELSE applyEvents([until |-> 0, isolated |-> iso, enriched |-> <<>>],
                     events, c, at)

\* Fault variant of apply: the enabled flag is not looked at
apply_always(c, until, iso, events, at) ==
    applyEvents([until |-> until, isolated |-> iso, enriched |-> <<>>],
                events, c, at)

\* apply(events) at time at: the events returned, rateLimitUntilMs and
\* isolated after it
apply(c, until, iso, events, at) ==
    IF ~c.enabled
    THEN [until |-> until, isolated |-> iso, enriched |-> events]
    ELSE applyEvents([until |-> until, isolated |-> iso, enriched |-> <<>>],
                     events, c, at)

\* the selfheal message: getConfig().enabled, getConfig().mode,
\* isRateLimited(), isIsolated()
PolicyMsg(c, until, iso, at) ==
    [type |-> "selfheal", enabled |-> c.enabled, mode |-> c.mode,
     rateLimited |-> isRateLimited(until, at), isolated |-> iso]

----------------------------------------------------------------------------
(* What the latest operation was given, returned and sent *)

Last(op, s, events, applied, sent) ==
    [op |-> op, s |-> s, events |-> events, applied |-> applied, sent |-> sent]

NoLast == Last("init", 0, <<>>, <<>>, <<>>)

Sessions == {1, 2}

Kinds == {"cpu_spike", "ram_spike", "io_spike", "disk_full", "ram_leak"}

\* the events of kind k in a sequence of events
OfKind(evs, k) == SelectSeq(evs, LAMBDA e : e.type = k)

\* emitted, after detect returned evs at time at
RecordEmitted(em, evs, at) ==
    [k \in Kinds |-> IF OfKind(evs, k) # <<>> THEN Append(em[k], at) ELSE em[k]]

T0 == 100000     \* the clock when the process starts

----------------------------------------------------------------------------
(* The detector's window under a long stream of pushes *)

MaxPushes == 125

\* the n-th sample of the stream: all samples differ
StreamSample(n) ==
    Sample((7 * n) % 101, (3 * n) % 101, n % 101, (11 * n) % 101, "local")

InitIdle ==
    /\ now = T0
    /\ det = [s \in Sessions |-> NewDetector]
    /\ cfg = [enabled |-> FALSE, mode |-> "dry-run", rateLimitSeconds |-> 30]
    /\ rateLimitUntilMs = 0
    /\ isolated = FALSE
    /\ conn = [s \in Sessions |-> "none"]
    /\ timer = [s \in Sessions |-> FALSE]
    /\ source = [s \in Sessions |-> "local"]
    /\ monitorUrl = [s \in Sessions |-> ""]
    /\ errorStreak = [s \in Sessions |-> 0]
    /\ inflight = [s \in Sessions |-> <<>>]
    /\ emitted = [s \in Sessions |-> [k \in Kinds |-> <<>>]]
    /\ used = [ticks |-> 0, msgs |-> 0]
    /\ last = NoLast

\* detector.push(m) on the detector of session 1; last.events counts the pushes
WinPush ==
    /\ Len(last.events) < MaxPushes
    /\ LET m == StreamSample(Len(last.events) + 1)
       IN  /\ det' = [det EXCEPT ![1] = push(@, m)]
           /\ last' = Last("push", 1, Append(last.events, m), <<>>, <<>>)
    /\ UNCHANGED <<now, emitted, ctlVars, sessVars>>

SpecWin == InitIdle /\ [][WinPush]_vars

\* C1: the history is always the last min(n, 120) pushed samples, in push
\* order: it never holds more than 120 samples, and a push at capacity drops
\* exactly the oldest one.
C1_WindowIsLastPushed ==
    /\ Len(det[1].window) <= 120
    /\ det[1].window = SliceLast(last.events, 120)

C1_Witness ==
    /\ Len(last.events) = 121
    /\ Len(det[1].window) = 120
    /\ det[1].window[1] = StreamSample(2)
    /\ det[1].window[120] = StreamSample(121)

----------------------------------------------------------------------------
(* One detector under push, detect and the passing of time *)

MaxLen == 8            \* pushes made on the detector

Horizon == 15000       \* the time that passes, milliseconds

ClockSteps == {14999, 15000}

calm == Sample(40, 40, 40, 40, "local")

warm == Sample(90, 90, 50, 90, "local")

hot == Sample(96, 96, 97, 96, "local")

DetSamples == {calm, warm, hot}

\* time passes
Advance(steps, upto) ==
    /\ \E d \in steps : now + d <= upto /\ now' = now + d
    /\ last' = Last("advance", 0, <<>>, <<>>, <<>>)
    /\ UNCHANGED <<detVars, ctlVars, sessVars>>

DetPush ==
    /\ Len(det[1].window) < MaxLen
    /\ \E m \in DetSamples : det' = [det EXCEPT ![1] = push(@, m)]
    /\ last' = Last("push", 1, <<>>, <<>>, <<>>)
    /\ UNCHANGED <<now, emitted, ctlVars, sessVars>>

\* detect returned r
Returned(s, r) ==
    /\ det' = [det EXCEPT ![s] = r.det]
    /\ emitted' = [emitted EXCEPT ![s] = RecordEmitted(@, r.events, now)]

DetDetect ==
    /\ \E r \in {detect(det[1], "local", now)} :
          /\ Returned(1, r)
          /\ last' = Last("detect", 1, r.events, <<>>, <<>>)
    /\ UNCHANGED <<now, ctlVars, sessVars>>

\* a history long enough for the statistical layer, the clock stepping to
\* either side of the 15 s cooldown
NextDet ==
    \/ DetPush
    \/ DetDetect
    \/ Advance(ClockSteps, T0 + Horizon)

SpecDet == InitIdle /\ [][NextDet]_vars

LastOf(q) == q[Len(q)]

\* C2: a detect call on a latest sample with cpu >= 95 returns a critical
\* cpu_spike when this detector returned no cpu_spike in the previous 15 s;
\* a detect call less than 15 s after a cpu_spike returns none.
C2_CpuSpikeCooldown ==
    [][ last'.op = "detect" /\ det[1].window # <<>> =>
          LET em     == emitted[1]["cpu_spike"]
              recent == em # <<>> /\ now - LastOf(em) < 15000
              got    == OfKind(last'.events, "cpu_spike")
          IN  /\ (LastOf(det[1].window).cpu >= 95 /\ ~recent) =>
                    (Len(got) = 1 /\ got[1].severity = "critical")
              /\ recent => got = <<>> ]_vars

\* a second cpu_spike exactly 15 s after the first, on cpu = 96
C2_Witness ==
    /\ last.op = "detect"
    /\ emitted[1]["cpu_spike"] = <<T0, T0 + 15000>>
    /\ LastOf(det[1].window).cpu = 96
    /\ OfKind(last.events, "cpu_spike") # <<>>

\* C3: one detect call returns at most one event of each kind.
C3_OneEventPerKind ==
    last.op = "detect" => \A k \in Kinds : Len(OfKind(last.events, k)) <= 1

\* the statistical layer emitted a warn cpu_spike
C3_Witness ==
    /\ last.op = "detect"
    /\ \E i \in 1..Len(last.events) :
          last.events[i].type = "cpu_spike" /\ last.events[i].severity = "warn"

----------------------------------------------------------------------------
(* The statistical layer on baselines of small and of no variance *)

MaxStat == 8           \* pushes made on the detector

mild == Sample(80, 82, 40, 82, "local")

high == Sample(85, 85, 40, 85, "local")

StatSamples == {calm, mild, high}

StatPush ==
    /\ Len(det[1].window) < MaxStat
    /\ \E m \in StatSamples : det' = [det EXCEPT ![1] = push(@, m)]
    /\ last' = Last("push", 1, <<>>, <<>>, <<>>)
    /\ UNCHANGED <<now, emitted, ctlVars, sessVars>>

NextStat ==
    \/ StatPush
    \/ DetDetect
    \/ Advance({15000}, T0 + 15000)

SpecStat == InitIdle /\ [][NextStat]_vars

\* the z-score of v against the readings b is at least p/q: (v - mean)/std
\* >= p/q when the readings vary, and v >= mean + 5 when they are all equal
\* (the score then counts as saturated)
ZScoreAtLeast(v, b, p, q) ==
    LET n == Len(b)
        S == SumSeq(b)
        Q == SumSeq([i \in 1..n |-> b[i] * b[i]])
    IN  IF n * Q > S * S
        THEN n * v > S /\ q * q * (n * v - S) * (n * v - S) >= p * p * (n * Q - S * S)
        ELSE n * v >= S + 5 * n

\* an event of kind k was returned less than ms before now
InCooldown(k, ms) ==
    emitted[1][k] # <<>> /\ now - LastOf(emitted[1][k]) < ms

\* the rule of C14 for the metric f: kind k, threshold p/q, cooldown ms
SpikeRule(f, k, p, q, ms) ==
    LET w   == det[1].window
        v   == LastOf(w)[f]
        got == OfKind(last'.events, k)
    IN  /\ ( /\ Len(w) >= 8
             /\ 85 <= v /\ v < 95
             /\ ZScoreAtLeast(v, Col(SliceButLast(SliceLast(w, 60)), f), p, q)
             /\ ~InCooldown(k, ms) )
           => (Len(got) = 1 /\ got[1].severity = "warn")
        /\ (Len(w) < 8 /\ v < 95) => got = <<>>

\* C14: on a history of at least 8 samples detect returns a warn spike event
\* for cpu (ram, io) when the latest value v has 85 <= v < 95, the z-score of
\* v against the preceding samples (at most 59, the newest left out) is at
\* least 2.8 (2.6 for io) and the kind is not in cooldown; on fewer than 8
\* samples it returns no cpu, ram or io spike for a value below 95.
C14_StatisticalSpike ==
    [][ last'.op = "detect" /\ det[1].window # <<>> =>
          /\ SpikeRule("cpu", "cpu_spike", 14, 5, 15000)
          /\ SpikeRule("ram", "ram_spike", 14, 5, 15000)
          /\ SpikeRule("io", "io_spike", 13, 5, 12000) ]_vars

\* six readings of 40 and one of 80 (cpu) or 82 (ram, io), then 85: the
\* z-score is 2.81 for cpu and 2.65 for ram and io
C14_Witness ==
    /\ last.op = "detect"
    /\ det[1].window = << calm, calm, calm, mild, calm, calm, calm, high >>
    /\ Len(last.events) = 2
    /\ last.events[1].type = "cpu_spike" /\ last.events[1].severity = "warn"
    /\ last.events[2].type = "io_spike" /\ last.events[2].severity = "warn"

\* the standard deviation of the readings b is not above 0.001: the variance
\* (n * Q - S * S) / n^2 is at most 1/1000000
Degenerate(b) ==
    LET n == Len(b)
        S == SumSeq(b)
        Q == SumSeq([i \in 1..n |-> b[i] * b[i]])
    IN  n * Q - S * S <= (n * n) \div 1000000

\* the rule for the metric f (kind k, cooldown ms) on a baseline without
\* variance and a latest value v in [85, 95): a spike when v is over the line
\* mean + 5 and k is not in cooldown, none when v is not over it; strict
\* tells whether a value on the line is over it
SaturatedRule(f, k, ms, strict) ==
    LET w    == det[1].window
        v    == LastOf(w)[f]
        b    == Col(SliceButLast(SliceLast(w, 60)), f)
        over == IF strict THEN Len(b) * v > SumSeq(b) + 5 * Len(b)
                          ELSE Len(b) * v >= SumSeq(b) + 5 * Len(b)
        got  == OfKind(last'.events, k)
    IN  (Len(w) >= 8 /\ Degenerate(b) /\ 85 <= v /\ v < 95) =>
           /\ (over /\ ~InCooldown(k, ms)) =>
                 (Len(got) = 1 /\ got[1].severity = "warn")
           /\ ~over => got = <<>>

\* C30 as stated: on a baseline whose standard deviation is not above 0.001
\* a latest value in [85, 95) greater than mean + 5 returns the spike (the
\* kind not being in cooldown), and a latest value not greater than mean + 5
\* returns none.
C30_SaturatedAboveLine ==
    [][ last'.op = "detect" /\ det[1].window # <<>> =>
          /\ SaturatedRule("cpu", "cpu_spike", 15000, TRUE)
          /\ SaturatedRule("ram", "ram_spike", 15000, TRUE)
          /\ SaturatedRule("io", "io_spike", 12000, TRUE) ]_vars

\* C30, amended: on a baseline whose standard deviation is not above 0.001
\* no division is made; a latest value in [85, 95) that is at least mean + 5
\* returns the spike (the kind not being in cooldown), and a latest value
\* below mean + 5 returns none.
C30_SaturatedFromLine ==
    [][ last'.op = "detect" /\ det[1].window # <<>> =>
          /\ SaturatedRule("cpu", "cpu_spike", 15000, FALSE)
          /\ SaturatedRule("ram", "ram_spike", 15000, FALSE)
          /\ SaturatedRule("io", "io_spike", 12000, FALSE) ]_vars

\* seven samples with cpu 80 and ram 82, then cpu 85 and ram 85: the cpu is
\* on the line mean + 5 and returns a spike, the ram is below it
C30_Witness ==
    /\ last.op = "detect"
    /\ det[1].window = << mild, mild, mild, mild, mild, mild, mild, high >>
    /\ Len(last.events) = 1
    /\ last.events[1].type = "cpu_spike" /\ last.events[1].severity = "warn"

----------------------------------------------------------------------------
(* The absolute thresholds and the four cooldowns of the spike table *)

MaxDisk == 2           \* pushes made on the detector

HorizonDisk == 30000   \* the clock runs from T0 to T0 + HorizonDisk

\* disk on either side of 90 and of 97, beside cpu, ram and io at 96 or 40
DiskSamples ==
    { Sample(96, 96, 89, 96, "local"), Sample(40, 40, 90, 40, "local"),
      Sample(96, 40, 96, 40, "local"), Sample(40, 40, 97, 96, "local") }

DiskPush ==
    /\ Len(det[1].window) < MaxDisk
    /\ \E m \in DiskSamples : det' = [det EXCEPT ![1] = push(@, m)]
    /\ last' = Last("push", 1, <<>>, <<>>, <<>>)
    /\ UNCHANGED <<now, emitted, ctlVars, sessVars>>

\* the clock stepping to either side of the 12 s, 15 s and 30 s cooldowns
NextDisk ==
    \/ DiskPush
    \/ DetDetect
    \/ Advance({3000, 11999, 12000}, T0 + HorizonDisk)

SpecDisk == InitIdle /\ [][NextDisk]_vars

\* the absolute rule of the metric f: kind k, threshold thr, cooldown ms.
\* Whether k is returned depends on the reading and on the last time k itself
\* was returned, on nothing else.
AbsoluteRule(f, k, thr, ms) ==
    LET got == OfKind(last'.events, k)
    IN  /\ (LastOf(det[1].window)[f] >= thr /\ ~InCooldown(k, ms)) => Len(got) = 1
        /\ InCooldown(k, ms) => got = <<>>

\* C27: a detect call on a latest sample with disk >= 90 returns disk_full
\* unless this detector returned disk_full less than 30 s before, critical
\* when disk >= 97 and warn otherwise; cpu_spike, ram_spike, io_spike and
\* disk_full each have a cooldown of their own (15 s, 15 s, 12 s, 30 s), and
\* an event of one kind, returned earlier or in the same call, keeps back no
\* event of another kind.
C27_DiskFullAndOwnCooldowns ==
    [][ last'.op = "detect" /\ det[1].window # <<>> =>
          /\ AbsoluteRule("cpu", "cpu_spike", 95, 15000)
          /\ AbsoluteRule("ram", "ram_spike", 95, 15000)
          /\ AbsoluteRule("io", "io_spike", 95, 12000)
          /\ AbsoluteRule("disk", "disk_full", 90, 30000)
          /\ \A i \in 1..Len(last'.events) :
                last'.events[i].type = "disk_full" =>
                   last'.events[i].severity =
                      IF LastOf(det[1].window).disk >= 97
                      THEN "critical" ELSE "warn" ]_vars

\* disk_full at T0 and, critical, exactly 30 s later, in one call with an
\* io_spike that was also returned 12 s before
C27_Witness ==
    /\ last.op = "detect"
    /\ Len(det[1].window) = 2
    /\ LastOf(det[1].window) = Sample(40, 40, 97, 96, "local")
    /\ emitted[1]["disk_full"] = << T0, T0 + 30000 >>
    /\ emitted[1]["io_spike"] = << T0 + 18000, T0 + 30000 >>
    /\ Len(last.events) = 2
    /\ last.events[1].type = "io_spike"
    /\ last.events[2].type = "disk_full" /\ last.events[2].severity = "critical"

----------------------------------------------------------------------------
(* The trend layer on histories of 25 samples and more *)

MaxLeak == 27          \* pushes made on the detector

LeakStreams == 1..7

\* the n-th RAM reading of stream k:
\*   1  66, 67, 68, ...: one point per sample
\*   2  the line from 70 (1st) to 90 (25th), to the nearest integer
\*   3  70 for 24 samples, then 80
\*   4  51, 52, 53, ...: below 80 throughout
\*   5  84 rising one point every fourth sample
\*   6  72, 73, 74, ...: 95 at the 24th sample
\*   7  70, 71, 72, ...: 94 at the 25th sample, 95 at the 26th
LeakReading(k, n) ==
    CASE k = 1 -> Min2(100, 65 + n)
      [] k = 2 -> Min2(100, (420 + 5 * (n - 1) + 3) \div 6)
      [] k = 3 -> IF n <= 24 THEN 70 ELSE 80
      [] k = 4 -> Min2(100, 50 + n)
      [] k = 5 -> Min2(100, 84 + (n \div 4))
      [] k = 6 -> Min2(100, 71 + n)
      [] k = 7 -> Min2(100, 69 + n)

\* the disk reading names the stream
LeakSample(k, n) == Sample(10, LeakReading(k, n), k, 10, "local")

\* detector.push of the next sample of the stream the history began with
LeakPush ==
    /\ Len(det[1].window) < MaxLeak
    /\ \E k \in (IF det[1].window = <<>> THEN LeakStreams
                  ELSE {det[1].window[1].disk}) :
          det' = [det EXCEPT ![1] = push(@, LeakSample(k, Len(@.window) + 1))]
    /\ last' = Last("push", 1, <<>>, <<>>, <<>>)
    /\ UNCHANGED <<now, emitted, ctlVars, sessVars>>

NextLeak ==
    \/ LeakPush
    \/ DetDetect
    \/ Advance({19999, 20000}, T0 + 20000)

SpecLeak == InitIdle /\ [][NextLeak]_vars

\* the least-squares slope of the 25 readings ys over the indices 0..24 is at
\* least 0.22: sum (x - 12)(y - mean) / sum (x - 12)^2 >= 22/100, times 25
SlopeAtLeast022(ys) ==
    LET S   == SumSeq(ys)
        num == SumSeq([i \in 1..25 |-> (i - 1 - 12) * (25 * ys[i] - S)])
        den == SumSeq([i \in 1..25 |-> (i - 1 - 12) * (i - 1 - 12)])
    IN  100 * num >= 22 * 25 * den

\* C15: detect returns a ram_leak only on a history of at least 25 samples,
\* and then exactly when, over the last 25 RAM readings, the latest is >= 80,
\* last - first >= 8, the least-squares slope is >= 0.22 and no ram_leak was
\* returned in the previous 20 s; it is critical iff the latest reading is
\* >= 92, and one call returns at most one.
C15_RamLeak ==
    [][ last'.op = "detect" /\ det[1].window # <<>> =>
          LET w   == det[1].window
              got == OfKind(last'.events, "ram_leak")
          IN  IF Len(w) < 25 THEN got = <<>>
              ELSE LET ys == Col(SliceLast(w, 25), "ram")
                   IN  /\ Len(got) <= 1
                       /\ got # <<>> <=>
                             /\ ys[25] >= 80
                             /\ ys[25] - ys[1] >= 8
                             /\ SlopeAtLeast022(ys)
                             /\ ~InCooldown("ram_leak", 20000)
                       /\ got # <<>> =>
                             (got[1].severity = "critical" <=> ys[25] >= 92)
                       /\ got # <<>> => got[1].severity \in {"critical", "warn"}
      ]_vars

\* RAM rising along the line from 70 to 90: detect after the 24th sample
\* returned no ram_leak, detect after the 25th returned one, a warn
C15_Witness ==
    /\ last.op = "detect"
    /\ Len(det[1].window) = 25
    /\ det[1].window[1].ram = 70 /\ det[1].window[25].ram = 90
    /\ det[1].window[1].disk = 2
    /\ emitted[1]["ram_leak"] = << T0 + 19999 >>
    /\ Len(OfKind(last.events, "ram_leak")) = 1
    /\ OfKind(last.events, "ram_leak")[1].severity = "warn"

\* C28: ram_leak is held back by its own 20 s cooldown and by nothing else:
\* a call whose last 25 RAM readings meet the trend conditions returns
\* ram_leak unless ram_leak was returned less than 20 s before, also when the
\* same call returns ram_spike or ram_spike was returned in the previous 15 s;
\* ram_spike is held back by an earlier ram_spike only, never by a ram_leak;
\* and the times at which one detector returned ram_leak are at least 20 s
\* apart.
C28_LeakOwnCooldown ==
    [][ last'.op = "detect" /\ det[1].window # <<>> =>
          LET w    == det[1].window
              leak == OfKind(last'.events, "ram_leak")
              em   == emitted'[1]["ram_leak"]
          IN  /\ InCooldown("ram_leak", 20000) => leak = <<>>
              /\ ( /\ Len(w) >= 25
                   /\ LastOf(w).ram >= 80
                   /\ LastOf(w).ram - w[Len(w) - 24].ram >= 8
                   /\ SlopeAtLeast022(Col(SliceLast(w, 25), "ram"))
                   /\ ~InCooldown("ram_leak", 20000) ) => Len(leak) = 1
              /\ AbsoluteRule("ram", "ram_spike", 95, 15000)
              /\ \A i \in 1..(Len(em) - 1) : em[i + 1] - em[i] >= 20000 ]_vars

\* RAM rising one point per sample: a ram_spike at 95 after the 24th sample
\* and, at the same clock reading, a ram_leak alone after the 25th
C28_Witness ==
    /\ last.op = "detect"
    /\ Len(det[1].window) = 25
    /\ det[1].window[1].disk = 6 /\ det[1].window[25].ram = 96
    /\ emitted[1]["ram_spike"] = << T0 >>
    /\ emitted[1]["ram_leak"] = << T0 >>
    /\ Len(last.events) = 1
    /\ last.events[1].type = "ram_leak" /\ last.events[1].severity = "critical"

----------------------------------------------------------------------------
(* Samples with NaN and out-of-range readings, on a history of 24 samples *)

MaxOdd == 2            \* pushes made on the history

\* NaN in every field and in one field at a time, readings above 100 and
\* below 0, and a sample on which every rule fires
OddSamples ==
    { Sample(NaN, NaN, NaN, NaN, "local"), Sample(NaN, 96, 96, 96, "local"),
      Sample(96, NaN, 96, 90, "local"),    Sample(90, 90, NaN, NaN, "local"),
      Sample(150, 96, -5, 101, "local"),   Sample(96, 96, 96, 96, "local") }

\* the detector after 24 pushes of RAM rising one point per sample from 70
InitOdd ==
    /\ now = T0
    /\ det = [s \in Sessions |->
                IF s = 1
                THEN [NewDetector EXCEPT
                         !.window = [n \in 1..24 |-> LeakSample(7, n)]]
                ELSE NewDetector]
    /\ cfg = [enabled |-> FALSE, mode |-> "dry-run", rateLimitSeconds |-> 30]
    /\ rateLimitUntilMs = 0
    /\ isolated = FALSE
    /\ conn = [s \in Sessions |-> "none"]
    /\ timer = [s \in Sessions |-> FALSE]
    /\ source = [s \in Sessions |-> "local"]
    /\ monitorUrl = [s \in Sessions |-> ""]
    /\ errorStreak = [s \in Sessions |-> 0]
    /\ inflight = [s \in Sessions |-> <<>>]
    /\ emitted = [s \in Sessions |-> [k \in Kinds |-> <<>>]]
    /\ used = [ticks |-> 0, msgs |-> 0]
    /\ last = NoLast

OddPush ==
    /\ Len(det[1].window) < 24 + MaxOdd
    /\ \E m \in OddSamples : det' = [det EXCEPT ![1] = push(@, m)]
    /\ last' = Last("push", 1, <<>>, <<>>, <<>>)
    /\ UNCHANGED <<now, emitted, ctlVars, sessVars>>

NextOdd ==
    \/ OddPush
    \/ DetDetect
    \/ Advance({15000}, T0 + 2 * 15000)

SpecOdd == InitOdd /\ [][NextOdd]_vars

\* the time of the last event of kind k the detector holds, 0 when none
SpikeAt(d, k) == IF k \in DOMAIN d.lastSpikeAtMs THEN d.lastSpikeAtMs[k] ELSE 0

\* the latest reading of f is NaN: no event of kind k, and the time of the
\* last event of kind k stays
NaNSilent(f, k) ==
    IsNaN(LastOf(det[1].window)[f]) =>
       /\ OfKind(last'.events, k) = <<>>
       /\ SpikeAt(det'[1], k) = SpikeAt(det[1], k)
       /\ emitted'[1][k] = emitted[1][k]

\* C29: detect returns a sequence of events of the known kinds, each carrying
\* the latest sample, whatever the readings of that sample: NaN, above 100 or
\* below 0.  A NaN reading yields no event of its kind from the absolute, the
\* statistical or the trend layer and leaves the kind's cooldown as it was; a
\* reading above 100 is over the threshold like any other.
C29_NaNIsSilent ==
    [][ last'.op = "detect" /\ det[1].window # <<>> =>
          /\ \A i \in 1..Len(last'.events) :
                /\ last'.events[i].type \in Kinds
                /\ last'.events[i].metrics = LastOf(det[1].window)
          /\ det'[1].window = det[1].window
          /\ NaNSilent("cpu", "cpu_spike")
          /\ NaNSilent("ram", "ram_spike")
          /\ NaNSilent("io", "io_spike")
          /\ NaNSilent("disk", "disk_full")
          /\ IsNaN(LastOf(det[1].window).ram) =>
                /\ OfKind(last'.events, "ram_leak") = <<>>
                /\ det'[1].lastLeakAtMs = det[1].lastLeakAtMs
          /\ AbsoluteRule("cpu", "cpu_spike", 95, 15000)
          /\ AbsoluteRule("io", "io_spike", 95, 12000) ]_vars

\* 15 s after every kind was returned, detect on a sample with RAM = NaN
\* returns cpu_spike and io_spike, and the RAM cooldowns still read T0
C29_Witness ==
    /\ last.op = "detect"
    /\ Len(det[1].window) = 26
    /\ LastOf(det[1].window) = Sample(96, NaN, 96, 90, "local")
    /\ now = T0 + 15000
    /\ emitted[1]["ram_spike"] = << T0 >> /\ emitted[1]["ram_leak"] = << T0 >>
    /\ emitted[1]["cpu_spike"] = << T0, T0 + 15000 >>
    /\ SpikeAt(det[1], "ram_spike") = T0 /\ det[1].lastLeakAtMs = T0
    /\ Len(last.events) = 2
    /\ last.events[1].type = "cpu_spike" /\ last.events[2].type = "io_spike"

----------------------------------------------------------------------------
(* The controller under apply, setConfig, reads and the passing of time *)

MaxEvents == 2         \* events given to one apply call

\* SELF_HEAL_RATE_LIMIT_SECONDS: unset (30) or set out of range
EnvRateLimitSeconds == {30, 1000}

evCpu == Event("cpu_spike", "critical", "local", hot, cpuActions)

evShort == Event("rate_limit_enabled", "warn", "local", calm,
                 << Action("enable_rate_limit", "tiny", 2),
                    Action("enable_rate_limit", "short", 10) >>)

evIsolate == Event("node_isolated", "critical", "local", hot,
                   << Action("restart_service", "restart", NoSeconds),
                      Action("restart_container", "recreate", NoSeconds),
                      Action("enable_rate_limit", "default", NoSeconds),
                      Action("enable_rate_limit", "long", 400),
                      Action("isolate_node", "isolate", NoSeconds) >>)

evPlain == Event("selfheal_noop", "info", "local", calm, <<>>)

CtlEvents == {evCpu, evShort, evIsolate, evPlain}

SeqsUpTo(S, n) == UNION {[1..k -> S] : k \in 0..n}

\* the arguments of setConfig
Partials ==
    {[k \in {} |-> 0]}
    \cup [enabled : BOOLEAN]
    \cup [mode : {"armed", "dry-run", "bogus"}]
    \cup [rateLimitSeconds : {1, 1000, NaN}]
    \cup [enabled : BOOLEAN, mode : {"armed", "dry-run"},
          rateLimitSeconds : {60}]

InitCtl ==
    /\ now = T0
    /\ det = [s \in Sessions |-> NewDetector]
    /\ \E e \in BOOLEAN, m \in {"dry-run", "armed"}, r \in EnvRateLimitSeconds :
          cfg = NewConfig(e, m, r)
    /\ rateLimitUntilMs = 0
    /\ isolated = FALSE
    /\ conn = [s \in Sessions |-> "none"]
    /\ timer = [s \in Sessions |-> FALSE]
    /\ source = [s \in Sessions |-> "local"]
    /\ monitorUrl = [s \in Sessions |-> ""]
    /\ errorStreak = [s \in Sessions |-> 0]
    /\ inflight = [s \in Sessions |-> <<>>]
    /\ emitted = [s \in Sessions |-> [k \in Kinds |-> <<>>]]
    /\ used = [ticks |-> 0, msgs |-> 0]
    /\ last = NoLast

\* apply returned r
Applied(r) ==
    /\ rateLimitUntilMs' = r.until
    /\ isolated' = r.isolated

CtlApply ==
    /\ \E evs \in SeqsUpTo(CtlEvents, MaxEvents) :
          \E r \in {apply(cfg, rateLimitUntilMs, isolated, evs, now)} :
             /\ Applied(r)
             /\ last' = Last("apply", 0, evs, r.enriched, <<>>)
    /\ UNCHANGED <<now, cfg, detVars, sessVars>>

CtlSetConfig ==
    /\ \E next \in Partials : cfg' = setConfig(cfg, next)
    /\ last' = Last("setConfig", 0, <<>>, <<>>, <<>>)
    /\ UNCHANGED <<now, rateLimitUntilMs, isolated, detVars, sessVars>>

\* getConfig(), isRateLimited() and isIsolated()
CtlRead ==
    /\ last' = Last("read", 0, <<>>, <<>>,
                    << PolicyMsg(cfg, rateLimitUntilMs, isolated, now) >>)
    /\ UNCHANGED <<now, ctlVars, detVars, sessVars>>

NextCtl ==
    \/ CtlApply
    \/ CtlSetConfig
    \/ CtlRead
    \/ Advance({10000}, T0 + 2 * 10000)

SpecCtl == InitCtl /\ [][NextCtl]_vars

\* all the actions proposed by a sequence of events
RECURSIVE Proposed(_)
Proposed(evs) ==
    IF evs = <<>> THEN <<>> ELSE Head(evs).actions \o Proposed(Tail(evs))

\* the seconds an enable_rate_limit action asks for
AskedSeconds(a) == IF a.seconds = NoSeconds THEN cfg.rateLimitSeconds ELSE a.seconds

\* the ends of the windows asked for by a sequence of events, at the time now
Targets(evs) ==
    LET as == Proposed(evs)
    IN  {now + 1000 * clamp(AskedSeconds(as[i]), 5, 300) :
            i \in {j \in 1..Len(as) : as[j].kind = "enable_rate_limit"}}

\* C4: enabled and armed, apply sets rateLimitUntil to the maximum of its
\* previous value and now + clamp(s, 5, 300) seconds over the enable_rate_limit
\* actions given: a window is never shortened.
C4_ArmedRateLimitMax ==
    [][ last'.op = "apply" /\ cfg.enabled /\ cfg.mode = "armed" =>
          /\ \A t \in Targets(last'.events) : rateLimitUntilMs' >= t
          /\ rateLimitUntilMs' \in {rateLimitUntilMs} \cup Targets(last'.events)
          /\ rateLimitUntilMs' >= rateLimitUntilMs ]_vars

\* seconds 10 applied 10 s into a window of 30 s: the window is unchanged
C4_Witness ==
    /\ last.op = "apply"
    /\ cfg.enabled /\ cfg.mode = "armed"
    /\ last.events = << evShort >>
    /\ now = T0 + 10000
    /\ rateLimitUntilMs = T0 + 30000

\* C6: enabled and dry-run, apply leaves rateLimitUntil and isolated as they
\* were and copies the proposed actions of every event into executed.actions.
C6_DryRunNoEffect ==
    [][ last'.op = "apply" /\ cfg.enabled /\ cfg.mode = "dry-run" =>
          /\ rateLimitUntilMs' = rateLimitUntilMs
          /\ isolated' = isolated
          /\ Len(last'.applied) = Len(last'.events)
          /\ \A i \in 1..Len(last'.events) :
                last'.events[i].actions # <<>> =>
                   last'.applied[i].executed =
                      [mode |-> "dry-run", actions |-> last'.events[i].actions]
      ]_vars

\* a dry-run apply of an event proposing isolate_node and enable_rate_limit
C6_Witness ==
    /\ last.op = "apply"
    /\ cfg.enabled /\ cfg.mode = "dry-run"
    /\ last.events = << evIsolate >>
    /\ last.applied[1].executed.actions = evIsolate.actions
    /\ ~isolated /\ rateLimitUntilMs = 0

\* C12: with the policy disabled apply returns its input unchanged, no event
\* gaining an executed record, and leaves rateLimitUntil and isolated as they
\* were, also when the mode is armed and the events propose enable_rate_limit
\* or isolate_node.
C12_DisabledPassThrough ==
    [][ last'.op = "apply" /\ ~cfg.enabled =>
          /\ last'.applied = last'.events
          /\ \A i \in 1..Len(last'.applied) :
                last'.applied[i].executed = NoExecuted
          /\ rateLimitUntilMs' = rateLimitUntilMs
          /\ isolated' = isolated ]_vars

\* disabled and armed, apply was given isolate_node and enable_rate_limit
C12_Witness ==
    /\ last.op = "apply"
    /\ ~cfg.enabled /\ cfg.mode = "armed"
    /\ last.events = << evIsolate, evCpu >>
    /\ last.applied = << evIsolate, evCpu >>
    /\ ~isolated /\ rateLimitUntilMs = 0

\* C16: in every state of the controller, from its construction on,
\* rateLimitSeconds lies in [5, 300] and mode is dry-run or armed.
C16_PolicyInRange ==
    /\ cfg.rateLimitSeconds \in 5..300
    /\ cfg.mode \in {"dry-run", "armed"}

\* C10: once isolated is true it is true in every later state.
C10_IsolatedLatch == [][ isolated => isolated' ]_vars

\* isolated, and operations have followed the latching
C10_Witness ==
    /\ isolated
    /\ last.op = "apply" /\ last.events = << evCpu >>
    /\ cfg.enabled /\ cfg.mode = "dry-run"

\* the greatest element of a finite set of numbers
Greatest(S) == CHOOSE x \in S : \A y \in S : y <= x

\* the kinds of action the controller carries out itself
Effective == {"enable_rate_limit", "isolate_node"}

\* C25: enabled and armed, the executed.actions of every event that proposes
\* actions has one entry per proposed action, in the proposed order:
\* enable_rate_limit and isolate_node are recorded as proposed, and their
\* effect is in the controller's state when apply returns; any other kind
\* (restart_service, restart_container, load_balance_hint) is recorded as the
\* advisory placeholder and adds nothing to the window or the latch.
C25_ArmedRecordsEveryAction ==
    [][ last'.op = "apply" /\ cfg.enabled /\ cfg.mode = "armed" =>
          /\ \A i \in 1..Len(last'.events) :
                LET asked == last'.events[i].actions
                    done  == last'.applied[i].executed.actions
                IN  asked # <<>> =>
                       /\ Len(done) = Len(asked)
                       /\ \A j \in 1..Len(asked) :
                             done[j] = IF asked[j].kind \in Effective
                                       THEN asked[j] ELSE placeholder
          /\ isolated' = (isolated \/ \E j \in 1..Len(Proposed(last'.events)) :
                             Proposed(last'.events)[j].kind = "isolate_node")
          /\ rateLimitUntilMs' =
                Greatest({rateLimitUntilMs} \cup Targets(last'.events))
          /\ cfg' = cfg ]_vars

\* an armed apply of an event proposing all the kinds but load_balance_hint,
\* followed by one proposing enable_rate_limit and load_balance_hint
C25_Witness ==
    /\ last.op = "apply"
    /\ cfg.enabled /\ cfg.mode = "armed" /\ cfg.rateLimitSeconds = 30
    /\ last.events = << evIsolate, evCpu >>
    /\ last.applied[1].executed.actions =
          << placeholder, placeholder, evIsolate.actions[3],
             evIsolate.actions[4], evIsolate.actions[5] >>
    /\ last.applied[2].executed.actions = << cpuActions[1], placeholder >>
    /\ isolated /\ rateLimitUntilMs = now + 300000

\* C26: enabled, apply returns one event per input event, in the input's
\* order; each differs from its input in the executed field at most; an event
\* proposing nothing is returned as it came, without an executed record; the
\* input keeps its own (absent) executed field; and executed.mode is the
\* policy's mode at the call.
C26_EnrichedCopies ==
    [][ last'.op = "apply" /\ cfg.enabled =>
          /\ Len(last'.applied) = Len(last'.events)
          /\ \A i \in 1..Len(last'.events) :
                LET ev  == last'.events[i]
                    out == last'.applied[i]
                IN  /\ [out EXCEPT !.executed = ev.executed] = ev
                    /\ ev.executed = NoExecuted
                    /\ ev.actions = <<>> => out.executed = NoExecuted
                    /\ ev.actions # <<>> => out.executed.mode = cfg.mode ]_vars

\* an armed apply of an event proposing nothing followed by one proposing
\* actions
C26_Witness ==
    /\ last.op = "apply"
    /\ cfg.enabled /\ cfg.mode = "armed"
    /\ last.events = << evPlain, evCpu >>
    /\ last.applied[1] = evPlain
    /\ last.applied[2] = [evCpu EXCEPT !.executed =
                             [mode |-> "armed",
                              actions |-> << cpuActions[1], placeholder >>]]

----------------------------------------------------------------------------
(* server.ts: the /ws/ops sessions and the shared controller *)

MaxTicks == 3          \* tick starts of the one session of SpecSess

MaxMsgs == 2           \* control messages of the one session of SpecSess

MaxTicks2 == 2         \* tick starts of the two sessions of Spec together

MaxMsgs2 == 1          \* control messages of the two sessions of Spec together

\* process.env.EC2_MONITOR_URL ?? ""
EnvMonitorUrl == ""

\* Fault variant of isValidHttpUrl: the protocol is not looked at
isValidHttpUrl_any(u) == u # ""

\* the strings new URL() accepts with protocol http: or https: and a hostname
isValidHttpUrl(u) == u \in {"http://ec2/monitor", "https://ec2/monitor"}

\* the url of a setSource message
MsgUrls == {"http://ec2/monitor", "ftp://ec2/monitor"}

Status(level, message) == [type |-> "status", level |-> level, message |-> message]

StreakStatus(n) == [type |-> "status", level |-> "error",
                    message |-> "collect_failed", streak |-> n]

MetricsMsg(m) == [type |-> "metrics", metrics |-> m]

AiMsg(ev) == [type |-> "ai", event |-> ev]

AiMsgs(evs) == [i \in 1..Len(evs) |-> AiMsg(evs[i])]

unreachable == [type |-> "agent_unreachable", severity |-> "warn",
                source |-> "monitor"]

\* Remove the i-th element of a sequence
Without(q, i) == SubSeq(q, 1, i - 1) \o SubSeq(q, i + 1, Len(q))

\* Fault variant of Connect: the greeting reports a controller of its own
Connect_own(s) ==
    /\ conn[s] = "none"
    /\ conn' = [conn EXCEPT ![s] = "open"]
    /\ timer' = [timer EXCEPT ![s] = TRUE]
    /\ source' = [source EXCEPT ![s] = "local"]
    /\ monitorUrl' = [monitorUrl EXCEPT ![s] = EnvMonitorUrl]
    /\ errorStreak' = [errorStreak EXCEPT ![s] = 0]
    /\ det' = [det EXCEPT ![s] = NewDetector]
    /\ last' = Last("connect", s, <<>>, <<>>,
                    << Status("info", "connected"),
                       PolicyMsg(cfg, 0, FALSE, now) >>)
    /\ UNCHANGED <<now, ctlVars, inflight, emitted, used>>

\* Fault variant of Connect: the session starts on the monitor with the
\* environment's url
Connect_remote(s) ==
    /\ conn[s] = "none"
    /\ conn' = [conn EXCEPT ![s] = "open"]
    /\ timer' = [timer EXCEPT ![s] = TRUE]
    /\ source' = [source EXCEPT ![s] = "monitor"]
    /\ monitorUrl' = [monitorUrl EXCEPT ![s] = EnvMonitorUrl]
    /\ errorStreak' = [errorStreak EXCEPT ![s] = 0]
    /\ det' = [det EXCEPT ![s] = NewDetector]
    /\ last' = Last("connect", s, <<>>, <<>>,
                    << Status("info", "connected"),
                       PolicyMsg(cfg, rateLimitUntilMs, isolated, now) >>)
    /\ UNCHANGED <<now, ctlVars, inflight, emitted, used>>

\* wssOps.on("connection"): the session state, the two greetings, the timer
Connect(s) ==
    /\ conn[s] = "none"
    /\ conn' = [conn EXCEPT ![s] = "open"]
    /\ timer' = [timer EXCEPT ![s] = TRUE]
    /\ source' = [source EXCEPT ![s] = "local"]
    /\ monitorUrl' = [monitorUrl EXCEPT ![s] = EnvMonitorUrl]
    /\ errorStreak' = [errorStreak EXCEPT ![s] = 0]
    /\ det' = [det EXCEPT ![s] = NewDetector]
    /\ last' = Last("connect", s, <<>>, <<>>,
                    << Status("info", "connected"),
                       PolicyMsg(cfg, rateLimitUntilMs, isolated, now) >>)
    /\ UNCHANGED <<now, ctlVars, inflight, emitted, used>>

\* Fault variant of tickStart: the controller's latch is not looked at
tickStart_blind(s) ==
    IF source[s] = "monitor"
    THEN IF monitorUrl[s] = "" \/ ~isValidHttpUrl(monitorUrl[s])
         THEN [sent |-> << Status("error", "bad_monitor_url") >>,
               source |-> "local", errorStreak |-> 0, await |-> "none"]
         ELSE [sent |-> <<>>, source |-> source[s],
               errorStreak |-> errorStreak[s], await |-> "monitor"]
    ELSE [sent |-> <<>>, source |-> source[s],
          errorStreak |-> errorStreak[s], await |-> "local"]

\* tick() up to its first await: what it sends, the source and streak it
\* leaves, and the collector it is suspended in ("none" when it returned)
tickStart(s) ==
    IF isolated
    THEN [sent |-> << Status("error", "isolated_paused") >>,
          source |-> source[s], errorStreak |-> errorStreak[s], await |-> "none"]
    ELSE IF source[s] = "monitor"
    THEN IF monitorUrl[s] = "" \/ ~isValidHttpUrl(monitorUrl[s])
         THEN [sent |-> << Status("error", "bad_monitor_url") >>,
               source |-> "local", errorStreak |-> 0, await |-> "none"]
         ELSE [sent |-> <<>>, source |-> source[s],
               errorStreak |-> errorStreak[s], await |-> "monitor"]
    ELSE [sent |-> <<>>, source |-> source[s],
          errorStreak |-> errorStreak[s], await |-> "local"]

\* setInterval(() => void tick(), 1200)
TimerFire(s, maxTicks, maxMsgs) ==
    /\ timer[s]
    /\ used.ticks < maxTicks
    /\ \E r \in {tickStart(s)} :
          /\ source' = [source EXCEPT ![s] = r.source]
          /\ errorStreak' = [errorStreak EXCEPT ![s] = r.errorStreak]
          /\ inflight' = [inflight EXCEPT ![s] =
                            IF r.await = "none" THEN @ ELSE Append(@, r.await)]
          /\ last' = Last("tickStart", s, <<>>, <<>>, r.sent)
    /\ used' = [used EXCEPT !.ticks = @ + 1]
    /\ UNCHANGED <<now, detVars, ctlVars, conn, timer, monitorUrl>>

\* Fault variant of Published: the snapshot is the one from before apply
Published_stale(m, r, a, c, until, iso, at) ==
    << MetricsMsg(m) >> \o AiMsgs(a.enriched)
    \o (IF Len(r.events) > 0 THEN << PolicyMsg(c, until, iso, at) >> ELSE <<>>)

\* Fault variant of Published: the policy snapshot is sent on every tick
Published_always(m, r, a, c, until, iso, at) ==
    << MetricsMsg(m) >> \o AiMsgs(a.enriched)
    \o << PolicyMsg(c, a.until, a.isolated, at) >>

\* the sends of a tick whose collector returned m: r is what detect returned,
\* a what apply returned, until and iso the controller's state before apply
Published(m, r, a, c, until, iso, at) ==
    << MetricsMsg(m) >> \o AiMsgs(a.enriched)
    \o (IF Len(r.events) > 0
        THEN << PolicyMsg(c, a.until, a.isolated, at) >> ELSE <<>>)

\* tick() after its collector returned m: push, detect, apply and the sends
onCollected(d, m, c, until, iso, at) ==
    LET r == detect(push(d, m), m.source, at)
    IN  LET a == apply(c, until, iso, r.events, at)
        IN  [r |-> r, a |-> a,
             sent |-> Published(m, r, a, c, until, iso, at)]

\* the collector a tick of s is suspended in returns a sample
TickOk(s) ==
    /\ \E i \in 1..Len(inflight[s]), v \in {calm, hot} :
          \E t \in {onCollected(det[s], [v EXCEPT !.source = inflight[s][i]],
                                 cfg, rateLimitUntilMs, isolated, now)} :
             /\ inflight' = [inflight EXCEPT ![s] = Without(@, i)]
             /\ errorStreak' = [errorStreak EXCEPT ![s] = 0]
             /\ Returned(s, t.r)
             /\ Applied(t.a)
             /\ last' = Last("tickOk", s, t.r.events, t.a.enriched, t.sent)
    /\ UNCHANGED <<now, cfg, conn, timer, source, monitorUrl, used>>

\* Fault variant of onFailed: the fallback waits for a fourth failure
onFailed_late(src, streak) ==
    IF src = "monitor" /\ streak + 1 > 3
    THEN [source |-> "local", errorStreak |-> 0,
          sent |-> << StreakStatus(streak + 1),
                      Status("error", "switched_to_local"),
                      AiMsg(unreachable) >>]
    ELSE [source |-> src, errorStreak |-> streak + 1,
          sent |-> << StreakStatus(streak + 1) >>]

\* Fault variant of onFailed: the streak is not reset on the switch to local
onFailed_noreset(src, streak) ==
    IF src = "monitor" /\ streak + 1 >= 3
    THEN [source |-> "local", errorStreak |-> streak + 1,
          sent |-> << StreakStatus(streak + 1),
                      Status("error", "switched_to_local"),
                      AiMsg(unreachable) >>]
    ELSE [source |-> src, errorStreak |-> streak + 1,
          sent |-> << StreakStatus(streak + 1) >>]

\* Fault variant of onFailed: the third failure restarts the count and the
\* session stays on the monitor
onFailed_stay(src, streak) ==
    IF src = "monitor" /\ streak + 1 >= 3
    THEN [source |-> src, errorStreak |-> 0,
          sent |-> << StreakStatus(streak + 1) >>]
    ELSE [source |-> src, errorStreak |-> streak + 1,
          sent |-> << StreakStatus(streak + 1) >>]

\* Fault variant of onFailed: the third failure falls back whatever the source
onFailed_anysrc(src, streak) ==
    IF streak + 1 >= 3
    THEN [source |-> "local", errorStreak |-> 0,
          sent |-> << StreakStatus(streak + 1),
                      Status("error", "switched_to_local"),
                      AiMsg(unreachable) >>]
    ELSE [source |-> src, errorStreak |-> streak + 1,
          sent |-> << StreakStatus(streak + 1) >>]

\* the catch block of tick(): src and streak are the session's when it runs
onFailed(src, streak) ==
    IF src = "monitor" /\ streak + 1 >= 3
    THEN [source |-> "local", errorStreak |-> 0,
          sent |-> << StreakStatus(streak + 1),
                      Status("error", "switched_to_local"),
                      AiMsg(unreachable) >>]
    ELSE [source |-> src, errorStreak |-> streak + 1,
          sent |-> << StreakStatus(streak + 1) >>]

\* the collector a tick of s is suspended in throws
TickFail(s) ==
    /\ \E i \in 1..Len(inflight[s]) :
          \E r \in {onFailed(source[s], errorStreak[s])} :
             /\ inflight' = [inflight EXCEPT ![s] = Without(@, i)]
             /\ source' = [source EXCEPT ![s] = r.source]
             /\ errorStreak' = [errorStreak EXCEPT ![s] = r.errorStreak]
             /\ last' = Last("tickFail", s, <<>>, <<>>, r.sent)
    /\ UNCHANGED <<now, detVars, ctlVars, conn, timer, monitorUrl, used>>

\* Fault variant of MsgBadJson: the parse error ends the session's timer
MsgBadJson_fatal(s, maxTicks, maxMsgs) ==
    /\ conn[s] = "open"
    /\ used.msgs < maxMsgs
    /\ used' = [used EXCEPT !.msgs = @ + 1]
    /\ timer' = [timer EXCEPT ![s] = FALSE]
    /\ last' = Last("badJson", s, <<>>, <<>>, << Status("error", "bad_json") >>)
    /\ UNCHANGED <<now, detVars, ctlVars, conn, source, monitorUrl,
                   errorStreak, inflight>>

\* ws.on("message"): the text is not JSON
MsgBadJson(s, maxTicks, maxMsgs) ==
    /\ conn[s] = "open"
    /\ used.msgs < maxMsgs
    /\ used' = [used EXCEPT !.msgs = @ + 1]
    /\ last' = Last("badJson", s, <<>>, <<>>, << Status("error", "bad_json") >>)
    /\ UNCHANGED <<now, detVars, ctlVars, conn, timer, source, monitorUrl,
                   errorStreak, inflight>>

\* Fault variant of MsgSetLocal: the streak is left as it is
MsgSetLocal_keep(s, maxTicks, maxMsgs) ==
    /\ conn[s] = "open"
    /\ used.msgs < maxMsgs
    /\ used' = [used EXCEPT !.msgs = @ + 1]
    /\ source' = [source EXCEPT ![s] = "local"]
    /\ last' = Last("setLocal", s, <<>>, <<>>, << Status("info", "local") >>)
    /\ UNCHANGED <<now, detVars, ctlVars, conn, timer, monitorUrl, errorStreak,
                   inflight>>

\* ws.on("message"): setSource local
MsgSetLocal(s, maxTicks, maxMsgs) ==
    /\ conn[s] = "open"
    /\ used.msgs < maxMsgs
    /\ used' = [used EXCEPT !.msgs = @ + 1]
    /\ source' = [source EXCEPT ![s] = "local"]
    /\ errorStreak' = [errorStreak EXCEPT ![s] = 0]
    /\ last' = Last("setLocal", s, <<>>, <<>>, << Status("info", "local") >>)
    /\ UNCHANGED <<now, detVars, ctlVars, conn, timer, monitorUrl, inflight>>

\* ws.on("message"): setSource monitor with a url that is rejected
MsgSetMonitorBad(s, maxTicks, maxMsgs) ==
    /\ conn[s] = "open"
    /\ used.msgs < maxMsgs
    /\ \E u \in MsgUrls : ~isValidHttpUrl(u)
    /\ used' = [used EXCEPT !.msgs = @ + 1]
    /\ last' = Last("setMonitorBad", s, <<>>, <<>>,
                    << Status("error", "bad_url_format") >>)
    /\ UNCHANGED <<now, detVars, ctlVars, conn, timer, source, monitorUrl,
                   errorStreak, inflight>>

\* ws.on("message"): setSource monitor with a valid url, and the tick it starts
MsgSetMonitor(s, maxTicks, maxMsgs) ==
    /\ conn[s] = "open"
    /\ used.msgs < maxMsgs
    /\ used.ticks < maxTicks
    /\ \E u \in MsgUrls :
          /\ isValidHttpUrl(u)
          /\ monitorUrl' = [monitorUrl EXCEPT ![s] = u]
          /\ source' = [source EXCEPT ![s] = "monitor"]
          /\ errorStreak' = [errorStreak EXCEPT ![s] = 0]
          /\ inflight' = [inflight EXCEPT ![s] =
                            IF isolated THEN @ ELSE Append(@, "monitor")]
          /\ last' = Last("setMonitor", s, <<>>, <<>>,
                          << Status("info", "monitor") >>
                          \o (IF isolated
                              THEN << Status("error", "isolated_paused") >>
                              ELSE <<>>))
    /\ used' = [ticks |-> used.ticks + 1, msgs |-> used.msgs + 1]
    /\ UNCHANGED <<now, detVars, ctlVars, conn, timer>>

\* ws.on("message"): setSelfHeal; a rateLimitSeconds that is not a number
\* is passed as undefined; last.events holds what setConfig is given
MsgSetSelfHeal(s, maxTicks, maxMsgs) ==
    /\ conn[s] = "open"
    /\ used.msgs < maxMsgs
    /\ used' = [used EXCEPT !.msgs = @ + 1]
    /\ \E next \in [enabled : BOOLEAN, mode : {"armed", "dry-run"}]
                   \cup [enabled : BOOLEAN, mode : {"armed", "dry-run"},
                         rateLimitSeconds : {1}] :
          /\ cfg' = setConfig(cfg, next)
          /\ last' = Last("setSelfHeal", s, << next >>, <<>>,
                          << PolicyMsg(cfg', rateLimitUntilMs, isolated, now) >>)
    /\ UNCHANGED <<now, detVars, rateLimitUntilMs, isolated, conn, timer,
                   source, monitorUrl, errorStreak, inflight>>

\* Fault variant of Close: the interval timer is left set
Close_keep(s) ==
    /\ conn[s] = "open"
    /\ conn' = [conn EXCEPT ![s] = "closed"]
    /\ last' = Last("close", s, <<>>, <<>>, <<>>)
    /\ UNCHANGED <<now, detVars, ctlVars, timer, source, monitorUrl, errorStreak,
                   inflight, used>>

\* ws.on("close")
Close(s) ==
    /\ conn[s] = "open"
    /\ conn' = [conn EXCEPT ![s] = "closed"]
    /\ timer' = [timer EXCEPT ![s] = FALSE]
    /\ last' = Last("close", s, <<>>, <<>>, <<>>)
    /\ UNCHANGED <<now, detVars, ctlVars, source, monitorUrl, errorStreak,
                   inflight, used>>

Step(SS, maxTicks, maxMsgs) ==
    \/ \E s \in SS :
          \/ Connect(s)
          \/ TimerFire(s, maxTicks, maxMsgs)
          \/ TickOk(s)
          \/ TickFail(s)
          \/ MsgBadJson(s, maxTicks, maxMsgs)
          \/ MsgSetLocal(s, maxTicks, maxMsgs)
          \/ MsgSetMonitorBad(s, maxTicks, maxMsgs)
          \/ MsgSetMonitor(s, maxTicks, maxMsgs)
          \/ MsgSetSelfHeal(s, maxTicks, maxMsgs)
          \/ Close(s)
    \/ Advance({20000}, T0 + 20000)

\* the environment of the server: self-healing off (the default) or armed
InitSys ==
    /\ InitCtl
    /\ cfg \in {NewConfig(FALSE, "dry-run", 30), NewConfig(TRUE, "armed", 30)}

\* two sessions on the shared controller
Next == Step(Sessions, MaxTicks2, MaxMsgs2)

Spec == InitSys /\ [][Next]_vars

\* one session
NextSess == Step({1}, MaxTicks, MaxMsgs)

SpecSess == InitSys /\ [][NextSess]_vars

\* the agent_unreachable events among the messages sent
Unreachables(sent) ==
    SelectSeq(sent, LAMBDA m : m.type = "ai" /\ m.event.type = "agent_unreachable")

\* C5: rateLimitUntil never decreases from one state to the next, whatever the
\* interleaving of the ticks and control messages of the two sessions.
C5_RateLimitMonotone == [][ rateLimitUntilMs' >= rateLimitUntilMs ]_vars

\* a tick of session 2 extends the window a tick of session 1 opened
C5_Witness ==
    /\ last.op = "tickOk" /\ last.s = 2
    /\ emitted[1]["cpu_spike"] = << T0 >>
    /\ now = T0 + 20000
    /\ rateLimitUntilMs = T0 + 20000 + 30000

\* C7: on monitor the first and the second failure in a row count the streak
\* up and publish no agent_unreachable; the third switches the session to
\* local, resets the streak to 0 and publishes exactly one agent_unreachable,
\* of severity warn.
C7_FallbackOnThirdFailure ==
    [][ last'.op = "tickFail" /\ source[last'.s] = "monitor" =>
          LET s == last'.s
              u == Unreachables(last'.sent)
          IN  IF errorStreak[s] = 2
              THEN /\ source'[s] = "local"
                   /\ errorStreak'[s] = 0
                   /\ Len(u) = 1 /\ u[1].event.severity = "warn"
              ELSE /\ errorStreak[s] < 2
                   /\ source'[s] = "monitor"
                   /\ errorStreak'[s] = errorStreak[s] + 1
                   /\ u = <<>> ]_vars

\* the third of three failed ticks that followed one setSource monitor
C7_Witness ==
    /\ last.op = "tickFail"
    /\ used = [ticks |-> 3, msgs |-> 1]
    /\ inflight[1] = <<>>
    /\ source[1] = "local" /\ errorStreak[1] = 0
    /\ Len(Unreachables(last.sent)) = 1
    /\ last.sent[1] = StreakStatus(3)

\* C8: the policy message of a tick whose detect returned events carries the
\* controller's state as it is after apply.
C8_PolicyAfterApply ==
    last.op = "tickOk" /\ last.events # <<>> =>
        LastOf(last.sent) = PolicyMsg(cfg, rateLimitUntilMs, isolated, now)

\* an armed tick opened the window it reports
C8_Witness ==
    /\ last.op = "tickOk" /\ last.events # <<>>
    /\ cfg.enabled /\ cfg.mode = "armed"
    /\ rateLimitUntilMs = now + 30000
    /\ LastOf(last.sent).type = "selfheal"
    /\ LastOf(last.sent).rateLimited

\* C9: at most one tick of a session is in flight.
C9_OneTickInFlight == \A s \in Sessions : Len(inflight[s]) <= 1

\* C13: once the connection of a session is closed its interval timer is
\* cancelled, and from then on no tick of that session starts: no timer tick,
\* no tick started by a control message, no new pending collector call.
C13_NoTickAfterClose ==
    [][ \A s \in Sessions :
          /\ conn'[s] = "closed" => ~timer'[s]
          /\ conn[s] = "closed" =>
                /\ ~(last'.op \in {"tickStart", "setMonitor"} /\ last'.s = s)
                /\ Len(inflight'[s]) <= Len(inflight[s]) ]_vars

\* session 1 closed with a tick pending, and session 2 goes on ticking
C13_Witness ==
    /\ conn[1] = "closed" /\ ~timer[1]
    /\ inflight[1] = << "local" >>
    /\ last.op = "tickStart" /\ last.s = 2

\* C17: a setSource monitor message whose url is not a valid http or https
\* URL is rejected: one error status is sent, source, monitorUrl and
\* errorStreak keep their values and no tick is started; only a valid url is
\* ever taken as the monitor url.
C17_BadUrlRejected ==
    [][ /\ last'.op = "setMonitorBad" =>
             /\ last'.sent = << Status("error", "bad_url_format") >>
             /\ source' = source
             /\ monitorUrl' = monitorUrl
             /\ errorStreak' = errorStreak
             /\ inflight' = inflight
             /\ used'.ticks = used.ticks
        /\ last'.op = "setMonitor" =>
             monitorUrl'[last'.s] \in {"http://ec2/monitor", "https://ec2/monitor"}
      ]_vars

\* a session on monitor, one failure counted, refuses an ftp url
C17_Witness ==
    /\ last.op = "setMonitorBad"
    /\ source[1] = "monitor"
    /\ monitorUrl[1] = "http://ec2/monitor"
    /\ errorStreak[1] = 1
    /\ inflight[1] = <<>>

\* C18: a setSelfHeal message carrying a rateLimitSeconds below 5 or above
\* 300 is rejected with a status message and leaves the policy (enabled, mode,
\* rateLimitSeconds) as it was.
C18_OutOfRangeRejected ==
    [][ ( /\ last'.op = "setSelfHeal"
          /\ "rateLimitSeconds" \in DOMAIN last'.events[1]
          /\ last'.events[1].rateLimitSeconds \notin 5..300 )
        => /\ cfg' = cfg
           /\ last'.sent # <<>>
           /\ \A i \in 1..Len(last'.sent) : last'.sent[i].type = "status" ]_vars

\* C22: a tick whose collection succeeded leaves errorStreak 0 and has sent,
\* in this order, the sample it pushed, each event apply returned in apply's
\* order, and then a policy snapshot if and only if detect returned an event.
C22_SuccessPublishes ==
    last.op = "tickOk" =>
        LET n == Len(last.applied)
        IN  /\ errorStreak[last.s] = 0
            /\ last.sent[1] = MetricsMsg(LastOf(det[last.s].window))
            /\ \A i \in 1..n : last.sent[1 + i] = AiMsg(last.applied[i])
            /\ Len(last.sent) = 1 + n + (IF last.events # <<>> THEN 1 ELSE 0)
            /\ last.events # <<>> => LastOf(last.sent).type = "selfheal"
            /\ last.events = <<>> =>
                  \A i \in 1..Len(last.sent) : last.sent[i].type # "selfheal"

\* a tick on a hot sample: the sample, four events, the policy snapshot
C22_Witness ==
    /\ last.op = "tickOk"
    /\ Len(last.events) = 4
    /\ Len(last.sent) = 6
    /\ last.sent[1].type = "metrics"
    /\ last.sent[5].type = "ai" /\ last.sent[5].event.type = "disk_full"
    /\ last.sent[6].type = "selfheal"

----------------------------------------------------------------------------
(* One session beside the controller's public apply *)

MaxTicksIso == 2       \* tick starts of the one session of SpecIso

MaxMsgsIso == 1        \* control messages of the one session of SpecIso

\* In server.ts apply is only given what detect returned, and no rule of
\* detect proposes isolate_node: the latch is set through apply, the public
\* method of the exported class SelfHealing, given an event that proposes it.
CtlIsolate ==
    /\ \E r \in {apply(cfg, rateLimitUntilMs, isolated, << evIsolate >>, now)} :
          /\ Applied(r)
          /\ last' = Last("apply", 0, << evIsolate >>, r.enriched, <<>>)
    /\ UNCHANGED <<now, cfg, detVars, sessVars>>

NextIso == Step({1}, MaxTicksIso, MaxMsgsIso) \/ CtlIsolate

SpecIso == InitSys /\ [][NextIso]_vars

\* the messages of sent that are not status messages
NonStatus(sent) == SelectSeq(sent, LAMBDA m : m.type # "status")

\* C11: a tick that starts while the controller reports isolated calls no
\* collector, publishes no metrics and no event, publishes one error status
\* (monitoring paused) and leaves errorStreak, source and the detector of the
\* session as they were; for the tick a setSource monitor message starts,
\* source and errorStreak are the ones the message has just set.
C11_IsolatedTickPaused ==
    [][ isolated /\ last'.op \in {"tickStart", "setMonitor"} =>
          /\ inflight' = inflight
          /\ det' = det
          /\ NonStatus(last'.sent) = <<>>
          /\ SelectSeq(last'.sent, LAMBDA m : m.level = "error")
                = << Status("error", "isolated_paused") >>
          /\ IF last'.op = "tickStart"
             THEN /\ Len(last'.sent) = 1
                  /\ source' = source
                  /\ errorStreak' = errorStreak
             ELSE /\ source'[last'.s] = "monitor"
                  /\ errorStreak'[last'.s] = 0 ]_vars

\* a timer tick on monitor is paused while an earlier tick is still suspended
\* in the monitor collector
C11_Witness ==
    /\ isolated
    /\ last.op = "tickStart"
    /\ last.sent = << Status("error", "isolated_paused") >>
    /\ source[1] = "monitor"
    /\ inflight[1] = << "monitor" >>

----------------------------------------------------------------------------
(* One session that runs on: the monitor is unreachable, the local          *)
(* collector answers                                                         *)

MaxInflight == 2       \* ticks the timer leaves pending before it fires again

MaxMsgsLive == 2       \* control messages of the one session of SpecLive

\* setInterval(() => void tick(), 1200), any number of times
LiveTimerFire(s) ==
    /\ timer[s]
    /\ Len(inflight[s]) < MaxInflight
    /\ \E r \in {tickStart(s)} :
          /\ source' = [source EXCEPT ![s] = r.source]
          /\ errorStreak' = [errorStreak EXCEPT ![s] = r.errorStreak]
          /\ inflight' = [inflight EXCEPT ![s] =
                            IF r.await = "none" THEN @ ELSE Append(@, r.await)]
          /\ last' = Last("tickStart", s, <<>>, <<>>, r.sent)
    /\ UNCHANGED <<now, detVars, ctlVars, conn, timer, monitorUrl, used>>

\* getLocalMetrics returns a sample: push, detect, apply and the sends, as
\* in onCollected
LiveTickOk(s) ==
    /\ \E i \in {j \in 1..Len(inflight[s]) : inflight[s][j] = "local"} :
          \E d \in {push(det[s], calm)} :
             \E r \in {detect(d, calm.source, now)} :
                \E a \in {apply(cfg, rateLimitUntilMs, isolated, r.events, now)} :
                   /\ inflight' = [inflight EXCEPT ![s] = Without(@, i)]
                   /\ errorStreak' = [errorStreak EXCEPT ![s] = 0]
                   /\ Returned(s, r)
                   /\ Applied(a)
                   /\ last' = Last("tickOk", s, r.events, a.enriched,
                                   Published(calm, r, a, cfg, rateLimitUntilMs,
                                             isolated, now))
    /\ UNCHANGED <<now, cfg, conn, timer, source, monitorUrl, used>>

\* getMonitorMetrics throws: no answer within 4.5 s, or an answer that is
\* not ok
LiveTickFail(s) ==
    /\ \E i \in {j \in 1..Len(inflight[s]) : inflight[s][j] = "monitor"} :
          \E r \in {onFailed(source[s], errorStreak[s])} :
             /\ inflight' = [inflight EXCEPT ![s] = Without(@, i)]
             /\ source' = [source EXCEPT ![s] = r.source]
             /\ errorStreak' = [errorStreak EXCEPT ![s] = r.errorStreak]
             /\ last' = Last("tickFail", s, <<>>, <<>>, r.sent)
    /\ UNCHANGED <<now, detVars, ctlVars, conn, timer, monitorUrl, used>>

\* a session that has been open on local for 120 ticks or more, all calm:
\* its history is full, and stays as it is under further calm samples
InitLive ==
    /\ now = T0
    /\ det = [s \in Sessions |->
                IF s = 1 THEN [NewDetector EXCEPT !.window = [i \in 1..max |-> calm]]
                ELSE NewDetector]
    /\ cfg \in {NewConfig(FALSE, "dry-run", 30), NewConfig(TRUE, "armed", 30)}
    /\ rateLimitUntilMs = 0
    /\ isolated = FALSE
    /\ conn = [s \in Sessions |-> IF s = 1 THEN "open" ELSE "none"]
    /\ timer = [s \in Sessions |-> s = 1]
    /\ source = [s \in Sessions |-> "local"]
    /\ monitorUrl = [s \in Sessions |-> EnvMonitorUrl]
    /\ errorStreak = [s \in Sessions |-> 0]
    /\ inflight = [s \in Sessions |-> <<>>]
    /\ emitted = [s \in Sessions |-> [k \in Kinds |-> <<>>]]
    /\ used = [ticks |-> 0, msgs |-> 0]
    /\ last = NoLast

NextLive ==
    \/ MsgSetMonitor(1, MaxMsgsLive, MaxMsgsLive)
    \/ MsgBadJson(1, MaxMsgsLive, MaxMsgsLive)
    \/ LiveTimerFire(1)
    \/ LiveTickOk(1)
    \/ LiveTickFail(1)
    \/ Close(1)

\* the interval timer fires again and again while it is set, and a pending
\* collector call settles
SpecLive ==
    /\ InitLive
    /\ [][NextLive]_vars
    /\ WF_vars(LiveTimerFire(1))
    /\ WF_vars(LiveTickOk(1) \/ LiveTickFail(1))

\* C19: a control message that is not JSON is answered with one error status
\* and changes nothing else: source, monitorUrl, errorStreak, the detector,
\* the policy and the timer are as before, and the timer goes on firing
\* ticks for as long as the connection is open.
C19_BadJsonRejected ==
    /\ [][ last'.op = "badJson" =>
             /\ last'.sent = << Status("error", "bad_json") >>
             /\ source' = source
             /\ monitorUrl' = monitorUrl
             /\ errorStreak' = errorStreak
             /\ det' = det
             /\ cfg' = cfg /\ rateLimitUntilMs' = rateLimitUntilMs
             /\ isolated' = isolated
             /\ inflight' = inflight
             /\ timer' = timer /\ timer'[last'.s] ]_vars
    /\ (last.op = "badJson") ~> (last.op = "tickStart" \/ conn[1] = "closed")

\* a tick started after the one message of the session, which was not JSON
C19_Witness ==
    /\ last.op = "tickStart"
    /\ conn[1] = "open"
    /\ used.msgs = 1
    /\ monitorUrl[1] = ""

\* C20: a failed collection is absorbed by the tick that made it and leaves
\* the timer and the connection as they are; while the connection is open
\* ticks keep starting; and a session on monitor whose monitor collections
\* all fail comes to local and keeps starting ticks on local.
C20_FailuresNeverStop ==
    /\ [][ last'.op = "tickFail" => timer' = timer /\ conn' = conn ]_vars
    /\ (conn[1] = "open") ~> (last.op = "tickStart" \/ conn[1] = "closed")
    /\ (conn[1] = "open" /\ source[1] = "monitor")
          ~> (source[1] = "local" \/ conn[1] = "closed")
    /\ (conn[1] = "open" /\ source[1] = "local")
          ~> \/ last.op = "tickStart" /\ LastOf(inflight[1]) = "local"
             \/ source[1] = "monitor"
             \/ conn[1] = "closed"

\* a tick on local of a session that was put on monitor and fell back
C20_Witness ==
    /\ last.op = "tickStart"
    /\ conn[1] = "open"
    /\ monitorUrl[1] = "http://ec2/monitor"
    /\ source[1] = "local" /\ errorStreak[1] = 0
    /\ inflight[1] = << "local" >>

----------------------------------------------------------------------------
(* One session whose source is switched while it runs on *)

MaxMsgsSrc == 2        \* control messages of the one session of SpecSrc

NextSrc ==
    \/ MsgSetLocal(1, MaxMsgsSrc, MaxMsgsSrc)
    \/ MsgSetMonitor(1, MaxMsgsSrc, MaxMsgsSrc)
    \/ MsgSetMonitorBad(1, MaxMsgsSrc, MaxMsgsSrc)
    \/ LiveTimerFire(1)
    \/ LiveTickOk(1)
    \/ LiveTickFail(1)

SpecSrc == InitLive /\ [][NextSrc]_vars

\* an accepted setSource message sets the source it names and errorStreak 0
SwitchTakes ==
    /\ last'.op = "setLocal" =>
          source'[last'.s] = "local" /\ errorStreak'[last'.s] = 0
    /\ last'.op = "setMonitor" =>
          source'[last'.s] = "monitor" /\ errorStreak'[last'.s] = 0

\* C21 as stated: an accepted setSource message sets the source and
\* errorStreak 0, and every tick that starts after it collects from the source
\* it selected.  The selection is known where the session has had one message
\* that left a monitor url (monitor), and where no monitor url was ever set
\* (local).
C21_EveryLaterTick ==
    [][ /\ SwitchTakes
        /\ (last'.op = "tickStart" /\ used.msgs = 1 /\ monitorUrl[1] # "") =>
              inflight'[1] = Append(inflight[1], "monitor")
        /\ (last'.op = "tickStart" /\ monitorUrl[1] = "") =>
              inflight'[1] = Append(inflight[1], "local") ]_vars

\* C21: an accepted setSource message sets the source it names and
\* errorStreak 0, a setSource monitor starts a tick on the monitor at once,
\* every tick collects from the source the session holds when it starts, and
\* that source stays the selected one until another setSource message or the
\* fallback on the third failure in a row changes it.
C21_SwitchOnNextTick ==
    [][ /\ SwitchTakes
        /\ last'.op = "setMonitor" =>
              inflight'[1] = Append(inflight[1], "monitor")
        /\ last'.op = "tickStart" =>
              inflight'[1] = Append(inflight[1], source[1])
        /\ source'[1] # source[1] =>
              \/ last'.op \in {"setLocal", "setMonitor"}
              \/ /\ last'.op = "tickFail"
                 /\ source[1] = "monitor" /\ errorStreak[1] = 2 ]_vars

\* a tick on local right after a switch away from the monitor, a tick on the
\* monitor still pending
C21_Witness ==
    /\ last.op = "tickStart"
    /\ used.msgs = 2
    /\ monitorUrl[1] = "http://ec2/monitor"
    /\ source[1] = "local" /\ errorStreak[1] = 0
    /\ inflight[1] = << "monitor", "local" >>

\* C24: a tick whose collection fails counts the streak up by one and first
\* publishes an error status carrying the counted value; the counter keeps
\* that value unless the same failure is the third in a row at the monitor
\* source (the fallback then resets it).  At the local source a failure
\* publishes that status alone, keeps the source and keeps the counted value,
\* however long the streak.
C24_FailureCounts ==
    [][ last'.op = "tickFail" =>
          LET s == last'.s
              n == errorStreak[s] + 1
              fallback == source[s] = "monitor" /\ n >= 3
          IN  /\ last'.sent[1] = StreakStatus(n)
              /\ ~fallback => errorStreak'[s] = n
              /\ source[s] = "local" =>
                    /\ source'[s] = "local"
                    /\ errorStreak'[s] = n
                    /\ last'.sent = << StreakStatus(n) >> ]_vars

\* the third failure in a row of a session that never left the local source
C24_Witness ==
    /\ last.op = "tickFail"
    /\ source[last.s] = "local" /\ monitorUrl[last.s] = ""
    /\ errorStreak[last.s] = 3
    /\ last.sent = << StreakStatus(3) >>

----------------------------------------------------------------------------
(* Two sessions beside the controller's public apply *)

MaxTicksSh == 1        \* tick starts of the two sessions of SpecShared together

MaxMsgsSh == 1         \* control messages of the two sessions of SpecShared

NextShared == Step(Sessions, MaxTicksSh, MaxMsgsSh) \/ CtlIsolate

SpecShared == InitSys /\ [][NextShared]_vars

\* the selfheal messages among the messages sent
Snapshots(sent) == SelectSeq(sent, LAMBDA m : m.type = "selfheal")

\* C23: the rate-limit window and the isolation latch are one state for all
\* sessions: whatever session sends a policy snapshot, it reports the window
\* and the latch as the latest apply of any session (or of any other caller)
\* left them, and once the latch is set a tick start of any session calls no
\* collector.  (No rule of detect proposes isolate_node, so in the server the
\* latch is set by no tick; here CtlIsolate, the controller's apply called
\* with such an event, sets it.)
C23_SharedSwitches ==
    [][ /\ \A i \in 1..Len(Snapshots(last'.sent)) :
              /\ Snapshots(last'.sent)[i].rateLimited
                    = (now' < rateLimitUntilMs')
              /\ Snapshots(last'.sent)[i].isolated = isolated'
        /\ (isolated /\ last'.op = "tickStart") => inflight' = inflight ]_vars

\* session 2 connects 20 s into the 30 s window an armed tick of session 1
\* opened, and is greeted with rateLimited
C23_Witness ==
    /\ last.op = "connect" /\ last.s = 2
    /\ emitted[1]["cpu_spike"] = << T0 >>
    /\ emitted[2]["cpu_spike"] = <<>>
    /\ now = T0 + 20000
    /\ rateLimitUntilMs = T0 + 30000
    /\ last.sent[2].type = "selfheal" /\ last.sent[2].rateLimited

----------------------------------------------------------------------------
(* The cooldown table against the detector's own history *)

\* the kinds the spike table is written for
SpikeKinds == {"cpu_spike", "ram_spike", "io_spike", "disk_full"}

\* C31: after every step the spike table of the detector has an entry for a
\* kind exactly when the detector has returned an event of that kind, the
\* entry being the time of the latest one, and holds no other entry; push
\* leaves the table as it is, and a detect call leaves the entry of every
\* kind it returns no event of as it is.
C31_TableIsLatestEmission ==
    [][ /\ DOMAIN det'[1].lastSpikeAtMs =
              {k \in SpikeKinds : emitted'[1][k] # <<>>}
        /\ \A k \in DOMAIN det'[1].lastSpikeAtMs :
              det'[1].lastSpikeAtMs[k] = LastOf(emitted'[1][k])
        /\ last'.op = "push" => det'[1].lastSpikeAtMs = det[1].lastSpikeAtMs
        /\ last'.op = "detect" =>
              \A k \in SpikeKinds :
                 OfKind(last'.events, k) = <<>> =>
                    /\ (k \in DOMAIN det'[1].lastSpikeAtMs
                           <=> k \in DOMAIN det[1].lastSpikeAtMs)
                    /\ SpikeAt(det'[1], k) = SpikeAt(det[1], k) ]_vars

\* a second cpu_spike 15 s after the first, disk_full never returned: the
\* table holds the later time for cpu_spike and nothing for disk_full
C31_Witness ==
    /\ last.op = "detect"
    /\ emitted[1]["cpu_spike"] = << T0, T0 + 15000 >>
    /\ emitted[1]["disk_full"] = <<>>
    /\ "cpu_spike" \in DOMAIN det[1].lastSpikeAtMs
    /\ det[1].lastSpikeAtMs["cpu_spike"] = T0 + 15000
    /\ "disk_full" \notin DOMAIN det[1].lastSpikeAtMs

----------------------------------------------------------------------------
(* A detector whose clock starts at the epoch *)

MaxEpoch == 2          \* pushes made on the history

HorizonEpoch == 30000  \* the clock runs from 0 to HorizonEpoch

\* Date.now() = 0, the detector after 24 pushes of RAM rising from 70
InitEpoch ==
    /\ now = 0
    /\ det = [s \in Sessions |->
                IF s = 1
                THEN [NewDetector EXCEPT
                         !.window = [n \in 1..24 |-> LeakSample(7, n)]]
                ELSE NewDetector]
    /\ cfg = [enabled |-> FALSE, mode |-> "dry-run", rateLimitSeconds |-> 30]
    /\ rateLimitUntilMs = 0
    /\ isolated = FALSE
    /\ conn = [s \in Sessions |-> "none"]
    /\ timer = [s \in Sessions |-> FALSE]
    /\ source = [s \in Sessions |-> "local"]
    /\ monitorUrl = [s \in Sessions |-> ""]
    /\ errorStreak = [s \in Sessions |-> 0]
    /\ inflight = [s \in Sessions |-> <<>>]
    /\ emitted = [s \in Sessions |-> [k \in Kinds |-> <<>>]]
    /\ used = [ticks |-> 0, msgs |-> 0]
    /\ last = NoLast

\* a sample over every absolute threshold, and a quiet one
EpochSamples == { Sample(96, 96, 96, 96, "local"), calm }

EpochPush ==
    /\ Len(det[1].window) < 24 + MaxEpoch
    /\ \E m \in EpochSamples : det' = [det EXCEPT ![1] = push(@, m)]
    /\ last' = Last("push", 1, <<>>, <<>>, <<>>)
    /\ UNCHANGED <<now, emitted, ctlVars, sessVars>>

NextEpoch ==
    \/ EpochPush
    \/ DetDetect
    \/ Advance({5000, 12000}, HorizonEpoch)

SpecEpoch == InitEpoch /\ [][NextEpoch]_vars

\* the first event of kind k: the detector never returned one, the latest
\* reading of f is at least thr, and detect returns one
FirstFires(f, k, thr) ==
    (emitted[1][k] = <<>> /\ LastOf(det[1].window)[f] >= thr) =>
       Len(OfKind(last'.events, k)) = 1

\* C32: a kind the detector never returned is not in cooldown, whatever the
\* clock reads: the first latest sample at or over a threshold returns its
\* event, and the first history meeting the trend conditions returns
\* ram_leak.
C32_NeverFiredNotInCooldown ==
    [][ last'.op = "detect" /\ det[1].window # <<>> =>
          /\ FirstFires("cpu", "cpu_spike", 95)
          /\ FirstFires("ram", "ram_spike", 95)
          /\ FirstFires("io", "io_spike", 95)
          /\ FirstFires("disk", "disk_full", 90)
          /\ ( /\ emitted[1]["ram_leak"] = <<>>
               /\ Len(det[1].window) >= 25
               /\ LastOf(det[1].window).ram >= 80
               /\ LastOf(det[1].window).ram
                     - det[1].window[Len(det[1].window) - 24].ram >= 8
               /\ SlopeAtLeast022(Col(SliceLast(det[1].window, 25), "ram")) )
             => Len(OfKind(last'.events, "ram_leak")) = 1 ]_vars

----------------------------------------------------------------------------
(* Ticks that complete after the session has changed under them *)

\* the step completes a tick of session s that was suspended in the collector
\* of a source other than the session's present one
CompletesStale(s) ==
    \E i \in 1..Len(inflight[s]) :
       /\ inflight'[s] = Without(inflight[s], i)
       /\ inflight[s][i] # source[s]

\* C33: a tick that started before a switch of the source and completes
\* after it leaves errorStreak as it is and publishes no metrics and no event.
C33_StaleTickIgnored ==
    [][ (last'.op \in {"tickOk", "tickFail"} /\ CompletesStale(last'.s)) =>
          /\ errorStreak'[last'.s] = errorStreak[last'.s]
          /\ \A i \in 1..Len(last'.sent) :
                last'.sent[i].type \notin {"metrics", "ai"} ]_vars

\* C34: once the connection of a session is closed, a tick of that session
\* that was in flight at the close changes neither rateLimitUntil nor
\* isolated when it completes, and pushes nothing to the session's detector.
C34_ClosedSessionIsInert ==
    [][ (last'.op \in {"tickOk", "tickFail"} /\ conn[last'.s] = "closed") =>
          /\ rateLimitUntilMs' = rateLimitUntilMs
          /\ isolated' = isolated
          /\ det'[last'.s].window = det[last'.s].window ]_vars

----------------------------------------------------------------------------
(* Invariants of the session state *)

\* C35: in every state the errorStreak of every session is at least 0, and
\* at most 2 while the session's source is monitor; the failure that
\* publishes agent_unreachable leaves the session on local with streak 0.
C35_StreakBelowThreeOnMonitor ==
    /\ \A s \in Sessions :
          /\ errorStreak[s] >= 0
          /\ source[s] = "monitor" => errorStreak[s] <= 2
    /\ (last.op = "tickFail" /\ Unreachables(last.sent) # <<>>) =>
          (source[last.s] = "local" /\ errorStreak[last.s] = 0)

\* the second failure in a row on monitor: the streak stands at its greatest
\* value there, with one more tick in flight
C35_Witness ==
    /\ last.op = "tickFail"
    /\ source[1] = "monitor" /\ errorStreak[1] = 2
    /\ last.sent = << StreakStatus(2) >>
    /\ inflight[1] = << "monitor" >>

\* C36: no event detect returns to a tick proposes isolate_node, and the
\* agent_unreachable event proposes nothing; in the server, where apply is
\* given what detect returned and nothing else, isolated is false in every
\* state and no tick publishes the monitoring-paused status.
C36_NeverIsolated ==
    /\ ~isolated
    /\ \A i \in 1..Len(last.events) :
          last.op \in {"tickOk", "detect"} =>
             \A j \in 1..Len(last.events[i].actions) :
                last.events[i].actions[j].kind # "isolate_node"
    /\ \A i \in 1..Len(last.sent) :
          /\ last.sent[i] # Status("error", "isolated_paused")
          /\ (last.sent[i].type = "ai"
                 /\ last.sent[i].event.type = "agent_unreachable") =>
                "actions" \notin DOMAIN last.sent[i].event

\* an armed tick applied four events, one of them critical on every count:
\* the window is open and the node is not isolated
C36_Witness ==
    /\ last.op = "tickOk"
    /\ cfg.enabled /\ cfg.mode = "armed"
    /\ Len(last.applied) = 4
    /\ last.applied[1].executed.mode = "armed"
    /\ rateLimitUntilMs = now + 30000
    /\ ~isolated

----------------------------------------------------------------------------
(* The controller over clock readings more than 300 s apart *)

HorizonLong == 450000  \* the clock runs from T0 to T0 + HorizonLong

\* apply called with one event
CtlApplyOne ==
    /\ \E e \in CtlEvents :
          \E r \in {apply(cfg, rateLimitUntilMs, isolated, << e >>, now)} :
             /\ Applied(r)
             /\ last' = Last("apply", 0, << e >>, r.enriched, <<>>)
    /\ UNCHANGED <<now, cfg, detVars, sessVars>>

NextLong ==
    \/ CtlApplyOne
    \/ CtlSetConfig
    \/ CtlRead
    \/ Advance({150000}, T0 + HorizonLong)

SpecLong == InitCtl /\ [][NextLong]_vars

\* C37: after every step, apply included, rateLimitUntil is at most 300 s
\* ahead of the clock; the clock does not go back; rateLimitUntil changes
\* only in an enabled, armed apply given an enable_rate_limit action; so a
\* window left alone is over 300 s after the apply at the latest, and
\* isRateLimited, once false, stays false until such an apply.
C37_WindowEndsWithin300s ==
    [][ /\ rateLimitUntilMs' <= now' + 300000
        /\ now' >= now
        /\ rateLimitUntilMs' # rateLimitUntilMs =>
              /\ last'.op = "apply" /\ cfg.enabled /\ cfg.mode = "armed"
              /\ \E j \in 1..Len(Proposed(last'.events)) :
                    Proposed(last'.events)[j].kind = "enable_rate_limit"
        /\ (rateLimitUntilMs' = rateLimitUntilMs
               /\ ~isRateLimited(rateLimitUntilMs, now)) =>
              ~isRateLimited(rateLimitUntilMs', now') ]_vars

\* an armed apply at T0 asked for 400 s; 300 s later the window is over
C37_Witness ==
    /\ last.op = "advance"
    /\ now = T0 + 300000
    /\ rateLimitUntilMs = T0 + 300000
    /\ ~isRateLimited(rateLimitUntilMs, now)

\* C38: every event detect returns proposes at least one action, so with the
\* policy enabled every detector event a tick publishes carries an executed
\* record with the policy's mode; the agent_unreachable event has no executed
\* field at all.
C38_PublishedEventsExecuted ==
    /\ last.op \in {"tickOk", "detect"} =>
          \A i \in 1..Len(last.events) : last.events[i].actions # <<>>
    /\ (last.op = "tickOk" /\ cfg.enabled) =>
          \A i \in 1..Len(last.sent) :
             last.sent[i].type = "ai" =>
                /\ last.sent[i].event.executed # NoExecuted
                /\ last.sent[i].event.executed.mode = cfg.mode
    /\ last.op = "tickFail" =>
          \A i \in 1..Len(last.sent) :
             last.sent[i].type = "ai" =>
                "executed" \notin DOMAIN last.sent[i].event

\* the policy was switched to dry-run by a control message; the tick after it
\* published a disk_full carrying its proposed action as a dry run
C38_Witness ==
    /\ last.op = "tickOk"
    /\ cfg.enabled /\ cfg.mode = "dry-run"
    /\ Len(last.sent) = 6
    /\ last.sent[5].event.type = "disk_full"
    /\ last.sent[5].event.executed =
          [mode |-> "dry-run", actions |-> diskActions]

----------------------------------------------------------------------------
(* detect("local") on samples that carry a source of their own *)

MaxArg == 2            \* pushes made on the history

\* a sample over every threshold labelled local, the same labelled monitor,
\* and a quiet one
ArgSamples ==
    { Sample(96, 96, 96, 96, "local"), Sample(96, 96, 96, 96, "monitor"), calm }

ArgPush ==
    /\ Len(det[1].window) < 24 + MaxArg
    /\ \E m \in ArgSamples : det' = [det EXCEPT ![1] = push(@, m)]
    /\ last' = Last("push", 1, <<>>, <<>>, <<>>)
    /\ UNCHANGED <<now, emitted, ctlVars, sessVars>>

NextArg ==
    \/ ArgPush
    \/ DetDetect
    \/ Advance({20000}, T0 + 20000)

SpecArg == InitOdd /\ [][NextArg]_vars

\* C39: every event detect returns carries the source the call was given
\* (DetDetect calls detect("local")), the ram_leak event included.
C39_EventSourceIsArgument ==
    last.op = "detect" =>
       \A i \in 1..Len(last.events) : last.events[i].source = "local"

\* C40: in every reachable session state a session whose source is monitor
\* holds a valid http or https monitor url, and no tick reports a bad monitor
\* url: the branch of tick that would switch the session to local for want
\* of a valid url is never taken.
C40_MonitorHasValidUrl ==
    /\ \A s \in Sessions :
          source[s] = "monitor" =>
             monitorUrl[s] \in {"http://ec2/monitor", "https://ec2/monitor"}
    /\ \A i \in 1..Len(last.sent) :
          last.sent[i] # Status("error", "bad_monitor_url")

\* a timer tick of a session on monitor passes the url check and is
\* suspended in the monitor collector beside the tick setSource started
C40_Witness ==
    /\ last.op = "tickStart"
    /\ last.sent = <<>>
    /\ source[1] = "monitor"
    /\ monitorUrl[1] = "http://ec2/monitor"
    /\ errorStreak[1] = 0
    /\ inflight[1] = << "monitor", "monitor" >>
====
